---- MODULE Spec2Model ----
(***************************************************************************)
(* Questionnaire scoring and persistence of the student_profile            *)
(* application: the Holland (36 questions) and Gardner (24 questions)      *)
(* questionnaire forms, their scorers, the rank selection of the submit    *)
(* views and the two writes each submit view makes.                        *)
(***************************************************************************)
EXTENDS Integers, Sequences, FiniteSets, TLC

VARIABLES students, holland_tests, holland_results, gardner_tests,
          gardner_results, seq, requests, forms

vars == <<students, holland_tests, holland_results, gardner_tests,
          gardner_results, seq, requests, forms>>

store == <<students, holland_tests, holland_results, gardner_tests,
           gardner_results, seq>>

-----------------------------------------------------------------------------
\* Bounds of the model.

\* Requests a behaviour of the concurrent specification receives.
MaxRequests == 2

\* Requests a behaviour of the serial specification receives.
MaxSerial == 3

\* Categories whose answers differ from the fill value in an enumerated
\* response set.
MaxVaried == 2

\* Items of a scores dict the rank selection is applied to on its own.
MaxRankItems == 2

\* Requests a behaviour of the dashboard specification receives.
MaxDashboard == 3

\* Requests a behaviour of the deletion specification receives.
MaxDelete == 2

-----------------------------------------------------------------------------
\* Instrument configuration.

\* The highest choice of a question (choices '1'..'5').
ScaleMax == 5

\* The lowest choice of a question.
ScaleMin == 1

HollandQuestions == 36

GardnerQuestions == 24

\* Maximum raw total of a Holland category, as written in the scorer.
HollandMaxPossible == 30

\* choices=[('1', ...), ..., ('5', ...)] of every question field.
Choices == {"1", "2", "3", "4", "5"}

\* Mutant of question_mapping: question 36 is listed under R as well as
\* under C.
question_mapping_q36_twice ==
    << <<"R", <<1, 2, 3, 4, 5, 6, 36>> >>,
       <<"I", <<7, 8, 9, 10, 11, 12>> >>,
       <<"A", <<13, 14, 15, 16, 17, 18>> >>,
       <<"S", <<19, 20, 21, 22, 23, 24>> >>,
       <<"E", <<25, 26, 27, 28, 29, 30>> >>,
       <<"C", <<31, 32, 33, 34, 35, 36>> >> >>

\* question_mapping of calculate_holland_scores, in dict insertion order.
question_mapping ==
    << <<"R", <<1, 2, 3, 4, 5, 6>> >>,
       <<"I", <<7, 8, 9, 10, 11, 12>> >>,
       <<"A", <<13, 14, 15, 16, 17, 18>> >>,
       <<"S", <<19, 20, 21, 22, 23, 24>> >>,
       <<"E", <<25, 26, 27, 28, 29, 30>> >>,
       <<"C", <<31, 32, 33, 34, 35, 36>> >> >>

\* intelligence_types of calculate_gardner_scores, in list order.
intelligence_types ==
    <<"linguistic", "logical", "spatial", "bodily", "musical",
      "interpersonal", "intrapersonal", "naturalist">>

\* The intelligence_type attribute the form constructor gives field q1..q24
\* (the second component of each entry of its questions list).
field_intelligence_type ==
    <<"linguistic", "linguistic", "linguistic",
      "logical", "logical", "logical",
      "spatial", "spatial", "spatial",
      "bodily", "bodily", "bodily",
      "musical", "musical", "musical",
      "interpersonal", "interpersonal", "interpersonal",
      "intrapersonal", "intrapersonal", "intrapersonal",
      "naturalist", "naturalist", "naturalist">>

\* The fields of a HollandTest that hold category scores, keyed as the
\* submit view fills them.
HollandKeys == {"R", "I", "A", "S", "E", "C"}

\* The fields of a GardnerTest that hold category scores.
GardnerKeys == {"linguistic", "logical", "spatial", "musical", "bodily",
                "interpersonal", "intrapersonal", "naturalist"}

-----------------------------------------------------------------------------
\* Python primitives the scorers use.

Range(s) == {s[i] : i \in DOMAIN s}

\* int(s) for the strings a request can carry in a question field.
DigitStrings == <<"0", "1", "2", "3", "4", "5", "6", "7", "8", "9">>

PyInt(s) == (CHOOSE i \in DOMAIN DigitStrings : DigitStrings[i] = s) - 1

\* Mutant of PyRound: truncation towards zero instead of rounding.
PyRoundTruncates(num, den) == num \div den

\* round(x) for the non-negative rational x = num / den: the nearest integer,
\* a tie going to the even neighbour.
PyRound(num, den) ==
    LET q == num \div den
        r == num % den
    IN  IF 2 * r < den THEN q
        ELSE IF 2 * r > den THEN q + 1
        ELSE IF q % 2 = 0 THEN q ELSE q + 1

\* dict.get(key, default) on a dict held as a sequence of <<key, value>>
\* pairs in insertion order.
DictGet(items, key, default) ==
    IF \E i \in DOMAIN items : items[i][1] = key
    THEN LET i == CHOOSE j \in DOMAIN items : items[j][1] = key
         IN  items[i][2]
    ELSE default

RECURSIVE SumSeq(_)
SumSeq(s) == IF s = << >> THEN 0 ELSE Head(s) + SumSeq(Tail(s))

\* Mutant of InsertDesc: an equal key goes before the items already placed,
\* so ties come out in reverse insertion order.
InsertDescUnstable(sorted, item) ==
    LET before == {i \in DOMAIN sorted : sorted[i][2] > item[2]}
        n == Cardinality(before)
    IN  SubSeq(sorted, 1, n) \o <<item>> \o SubSeq(sorted, n + 1, Len(sorted))

\* One step of the stable descending sort: the item goes after every item
\* already placed whose key is greater or equal.
InsertDesc(sorted, item) ==
    LET before == {i \in DOMAIN sorted : sorted[i][2] >= item[2]}
        n == Cardinality(before)
    IN  SubSeq(sorted, 1, n) \o <<item>> \o SubSeq(sorted, n + 1, Len(sorted))

RECURSIVE SortFrom(_, _)
SortFrom(items, sorted) ==
    IF items = << >> THEN sorted
    ELSE SortFrom(Tail(items), InsertDesc(sorted, Head(items)))

\* Mutant of sorted_scores: ascending order (reverse=True dropped).
RECURSIVE AscendingFrom(_, _)
AscendingFrom(items, sorted) ==
    IF items = << >> THEN sorted
    ELSE LET item == Head(items)
             n == Cardinality({i \in DOMAIN sorted : sorted[i][2] <= item[2]})
         IN  AscendingFrom(Tail(items),
                 SubSeq(sorted, 1, n) \o <<item>>
                     \o SubSeq(sorted, n + 1, Len(sorted)))

sorted_scores_ascending(scores) == AscendingFrom(scores, << >>)

\* sorted(scores.items(), key=lambda x: x[1], reverse=True): a stable sort,
\* so items of equal score keep the order of scores.items().
sorted_scores(scores) == SortFrom(scores, << >>)

-----------------------------------------------------------------------------
\* HollandQuestionnaireForm and GardnerQuestionnaireForm.

\* Mutant of is_valid: a field only has to be present, its value is not
\* compared with the choices.
is_valid_presence_only(post, nquestions) ==
    \A q \in 1..nquestions : q \in DOMAIN post

\* form.is_valid(): every question field is required and its value must be
\* one of the choices. post maps a question number to the submitted string;
\* a question the request does not carry is outside DOMAIN post.
is_valid(post, nquestions) ==
    \A q \in 1..nquestions : q \in DOMAIN post /\ post[q] \in Choices

\* form.cleaned_data: the fields that passed validation.
cleaned_data(post, nquestions) ==
    [q \in {x \in 1..nquestions : x \in DOMAIN post /\ post[x] \in Choices}
        |-> post[q]]

\* int(self.cleaned_data.get(f'q{q_num}', 1))
holland_response_value(cleaned, q_num) ==
    IF q_num \in DOMAIN cleaned THEN PyInt(cleaned[q_num]) ELSE 1

\* Mutant of holland_total_score: the inner loop stops before the last
\* question of the type.
holland_total_score_skips_last(cleaned, questions) ==
    SumSeq([i \in 1..(Len(questions) - 1) |->
                holland_response_value(cleaned, questions[i])])

\* Mutant of holland_total_score: total_score is not reset between types
\* beyond the first question, so the response to q1 is in every total.
holland_total_score_keeps_q1(cleaned, questions) ==
    SumSeq([i \in DOMAIN questions |->
                holland_response_value(cleaned, questions[i])])
    + (IF 1 \in Range(questions) THEN 0 ELSE holland_response_value(cleaned, 1))

\* total_score of one Holland type: the inner loop over its questions.
holland_total_score(cleaned, questions) ==
    SumSeq([i \in DOMAIN questions |->
                holland_response_value(cleaned, questions[i])])

\* Mutant of holland_percentage: the total divided by the number of
\* questions of a category instead of by the maximum total.
holland_percentage_per_question(total_score) == PyRound(total_score * 100, 6)

\* percentage_score = (total_score / 30) * 100; round(percentage_score).
\* The double-precision value differs from the rational total_score*100/30
\* by less than 1e-13 and the rational is never within 1/6 of a tie, so
\* rounding the rational gives the same integer.
holland_percentage(total_score) ==
    PyRound(total_score * 100, HollandMaxPossible)

\* Mutant of calculate_holland_scores: a type whose every answer is 1 gets
\* no entry in scores.
calculate_holland_scores_skips_lowest(cleaned) ==
    LET all == [i \in DOMAIN question_mapping |->
                   <<question_mapping[i][1],
                     PyRound(SumSeq([k \in DOMAIN question_mapping[i][2] |->
                         IF question_mapping[i][2][k] \in DOMAIN cleaned
                         THEN PyInt(cleaned[question_mapping[i][2][k]])
                         ELSE 1]) * 100, HollandMaxPossible)>>]
    IN  SelectSeq(all, LAMBDA item : item[2] > 20)

\* calculate_holland_scores: the scores dict as <<type, percentage>> pairs in
\* insertion order, which is the order of question_mapping.
calculate_holland_scores(cleaned) ==
    [i \in DOMAIN question_mapping |->
        <<question_mapping[i][1],
          holland_percentage(
              holland_total_score(cleaned, question_mapping[i][2]))>>]

\* self.fields of a GardnerQuestionnaireForm as __init__ leaves it: q1..q24,
\* each with an intelligence_type.
GardnerFields == DOMAIN field_intelligence_type

\* The fields, among the form's fields, that the first loop of
\* calculate_gardner_scores visits for one intelligence type.
gardner_fields_of(fields, intelligence) ==
    {i \in fields : field_intelligence_type[i] = intelligence}

\* Mutant of type_counts: a field is counted only when cleaned_data has its
\* response.
type_counts_of_answered(fields, cleaned, intelligence) ==
    Cardinality(gardner_fields_of(fields, intelligence) \cap DOMAIN cleaned)

\* type_counts[intelligence] after the first loop: every visited field is
\* counted, whether or not cleaned_data has its response.
type_counts(fields, cleaned, intelligence) ==
    Cardinality(gardner_fields_of(fields, intelligence))

\* scores[intelligence] after the first loop: the responses of the visited
\* fields that are present in cleaned_data.
gardner_total_score(fields, cleaned, intelligence) ==
    SumSeq([i \in 1..GardnerQuestions |->
        IF i \in gardner_fields_of(fields, intelligence) /\ i \in DOMAIN cleaned
        THEN PyInt(cleaned[i]) ELSE 0])

\* Mutant of gardner_max_possible: 8 points per question, for which a sum of
\* 3 over 3 questions gives 12.5 percent.
gardner_max_possible_of_eight(count) == count * 8

\* max_possible = type_counts[intelligence] * 5
gardner_max_possible(count) == count * ScaleMax

\* Mutant of gardner_percentage: every type scored against the Holland
\* maximum of 30.
gardner_percentage_holland_max(total_score, count) ==
    PyRound(total_score * 100, HollandMaxPossible)

\* max_possible = type_counts * 5; round((total_score / max_possible) * 100)
\* or 0 when max_possible is 0.
gardner_percentage(total_score, count) ==
    LET max_possible == gardner_max_possible(count)
    IN  IF max_possible > 0 THEN PyRound(total_score * 100, max_possible)
        ELSE 0

\* calculate_gardner_scores: percentage_scores as <<type, percentage>> pairs
\* in insertion order, which is the order of intelligence_types.
calculate_gardner_scores(fields, cleaned) ==
    [i \in DOMAIN intelligence_types |->
        <<intelligence_types[i],
          gardner_percentage(
              gardner_total_score(fields, cleaned, intelligence_types[i]),
              type_counts(fields, cleaned, intelligence_types[i]))>>]

-----------------------------------------------------------------------------
\* Rank selection of the submit views.

\* Mutant of secondary_of: the runner-up is looked for among the items that
\* score strictly less than the first one, and is the first one if none does.
secondary_of_strictly_lower(sorted, fallback) ==
    LET lower == {i \in DOMAIN sorted : sorted[i][2] < sorted[1][2]}
    IN  IF sorted = << >> THEN fallback
        ELSE IF lower = {} THEN sorted[1][1]
        ELSE sorted[CHOOSE i \in lower : \A j \in lower : i <= j][1]

\* Mutant of primary_of: the first item is taken without the test for an
\* empty list, which leaves the label unset when there is none.
primary_of_without_fallback(sorted, fallback) ==
    IF sorted # << >> THEN sorted[1][1] ELSE ""

\* sorted_scores[0][0] if sorted_scores else fallback
primary_of(sorted, fallback) ==
    IF sorted # << >> THEN sorted[1][1] ELSE fallback

\* sorted_scores[1][0] if len(sorted_scores) > 1 else fallback
secondary_of(sorted, fallback) ==
    IF Len(sorted) > 1 THEN sorted[2][1] ELSE fallback

\* The rank selection of submit_holland_questionnaire: <<primary_type,
\* secondary_type>> for the scores the scorer returned.
holland_rank(scores) ==
    LET sorted == sorted_scores(scores)
    IN  <<primary_of(sorted, "R"), secondary_of(sorted, "I")>>

\* The rank selection of submit_gardner_questionnaire:
\* <<primary_intelligence, secondary_intelligence>>.
gardner_rank(scores) ==
    LET sorted == sorted_scores(scores)
    IN  <<primary_of(sorted, "linguistic"), secondary_of(sorted, "logical")>>

-----------------------------------------------------------------------------
\* The 41-question Gardner variant served by submit_ss_career_discovery. The
\* view is routed in urls.py but its code is not among the sources; it is
\* modelled from the specification (sections 2, 4 and 8).

SsQuestions == 41

\* The highest response of the variant's scale 0..3.
SsScaleMax == 3

\* The categories in declaration order with their sizes.
ss_category_sizes ==
    << <<"linguistic", 5>>, <<"musical", 5>>, <<"bodily", 6>>,
       <<"interpersonal", 5>>, <<"logical", 4>>, <<"naturalist", 5>>,
       <<"spatial", 5>>, <<"intrapersonal", 6>> >>

\* The questions of the linguistic category.
ss_linguistic_questions == <<1, 10, 17, 25, 34>>

\* The questions outside the linguistic category, ascending. The
\* specification does not say which category each belongs to: they are dealt
\* to the other categories in declaration order, each taking its size.
ss_other_questions ==
    LET others == (1..SsQuestions) \ Range(ss_linguistic_questions)
        Nth[n \in 1..Cardinality(others)] ==
            CHOOSE q \in others : Cardinality({x \in others : x < q}) = n - 1
    IN  Nth

\* The category map of the variant.
ss_question_mapping ==
    [i \in DOMAIN ss_category_sizes |->
        IF i = 1 THEN <<ss_category_sizes[1][1], ss_linguistic_questions>>
        ELSE LET skipped == SumSeq([j \in 1..(i - 2) |->
                                       ss_category_sizes[j + 1][2]])
             IN  <<ss_category_sizes[i][1],
                   SubSeq(ss_other_questions, skipped + 1,
                          skipped + ss_category_sizes[i][2])>>]

\* A submission is scored only if every question has a response on the
\* scale.
ss_is_valid(post) ==
    \A q \in 1..SsQuestions :
       q \in DOMAIN post /\ post[q] \in {"0", "1", "2", "3"}

\* Mutant of ss_percentage: the maximum taken on the 1..5 scale of the
\* other instruments.
ss_percentage_scale_five(total, size) == PyRound(total * 100, size * ScaleMax)

\* percentage = round((sum / max_possible) * 100) with max_possible the
\* category's size times the scale maximum.
ss_percentage(total, size) == PyRound(total * 100, size * SsScaleMax)

\* The category percentages as <<category, percentage>> pairs in declaration
\* order.
calculate_ss_scores(post) ==
    [i \in DOMAIN ss_question_mapping |->
        <<ss_question_mapping[i][1],
          ss_percentage(
              SumSeq([k \in DOMAIN ss_question_mapping[i][2] |->
                         PyInt(post[ss_question_mapping[i][2][k]])]),
              Len(ss_question_mapping[i][2]))>>]

-----------------------------------------------------------------------------
\* Requests.

\* The string a browser submits for the choice v.
Str(v) == DigitStrings[v + 1]

Scale == ScaleMin..ScaleMax

\* For each Holland question, the index in question_mapping of its type and
\* its position among the questions of that type.
HollandPlace ==
    [q \in 1..HollandQuestions |->
        LET c == CHOOSE i \in DOMAIN question_mapping :
                     q \in Range(question_mapping[i][2])
        IN  [cat |-> c,
             pos |-> CHOOSE k \in DOMAIN question_mapping[c][2] :
                         question_mapping[c][2][k] = q]]

\* For each Gardner field, the index in intelligence_types of its type and
\* its position among the fields of that type.
GardnerPlace ==
    [q \in 1..GardnerQuestions |->
        [cat |-> CHOOSE i \in DOMAIN intelligence_types :
                     intelligence_types[i] = field_intelligence_type[q],
         pos |-> Cardinality({x \in 1..q :
                     field_intelligence_type[x] = field_intelligence_type[q]})]]

\* The values a category that is varied as a whole answers, on a scale.
BlockValues(lo, hi) == {lo, (lo + hi) \div 2, hi}

\* The ways up to MaxVaried of ncat categories of at most size questions
\* differ from the fill value: each varied category answers a block value to
\* all its questions, or a single varied category answers v to its first k
\* questions.
Variations(ncat, size, lo, hi) ==
    UNION {[S -> [k : {size}, v : BlockValues(lo, hi)]] :
              S \in {T \in SUBSET (1..ncat) : Cardinality(T) <= MaxVaried}}
    \cup UNION {[{c} -> [k : 1..size, v : lo..hi]] : c \in 1..ncat}

\* The answer to a question at position pos of category cat.
AnswerOf(fill, varied, cat, pos) ==
    IF cat \in DOMAIN varied /\ pos <= varied[cat].k
    THEN varied[cat].v ELSE fill

\* Complete, in-range Holland submissions.
HollandPosts ==
    {[q \in 1..HollandQuestions |->
          Str(AnswerOf(fill, varied, HollandPlace[q].cat,
                       HollandPlace[q].pos))] :
        fill \in Scale, varied \in Variations(Len(question_mapping),
                                     Len(question_mapping[1][2]),
                                     ScaleMin, ScaleMax)}

\* Complete, in-range Gardner submissions.
GardnerPosts ==
    {[q \in 1..GardnerQuestions |->
          Str(AnswerOf(fill, varied, GardnerPlace[q].cat,
                       GardnerPlace[q].pos))] :
        fill \in Scale, varied \in Variations(Len(intelligence_types),
                                     Cardinality(gardner_fields_of(
                                         GardnerFields, intelligence_types[1])),
                                     ScaleMin, ScaleMax)}

\* For each question of the 41-question variant, the index of its category
\* and its position among the questions of that category.
SsPlace ==
    [q \in 1..SsQuestions |->
        LET c == CHOOSE i \in DOMAIN ss_question_mapping :
                     q \in Range(ss_question_mapping[i][2])
        IN  [cat |-> c,
             pos |-> CHOOSE k \in DOMAIN ss_question_mapping[c][2] :
                         ss_question_mapping[c][2][k] = q]]

\* Complete, in-range submissions of the 41-question variant.
SsPosts ==
    {[q \in 1..SsQuestions |->
          Str(AnswerOf(fill, varied, SsPlace[q].cat, SsPlace[q].pos))] :
        fill \in 0..SsScaleMax,
        varied \in Variations(Len(ss_question_mapping),
                              Len(ss_question_mapping[3][2]),
                              0, SsScaleMax)}

\* A submission with every answer equal to fill.
ConstPost(nquestions, fill) == [q \in 1..nquestions |-> Str(fill)]

\* Submissions the form rejects: one question missing, or one value outside
\* the choices.
InvalidPosts(nquestions) ==
    {[q \in (1..nquestions) \ {missing} |-> Str(fill)] :
        missing \in 1..nquestions, fill \in {ScaleMin, ScaleMax}}
    \cup {[ConstPost(nquestions, fill) EXCEPT ![q] = bad] :
        q \in 1..nquestions, fill \in {ScaleMin, ScaleMax},
        bad \in {"", Str(ScaleMin - 1), Str(ScaleMax + 1)}}

\* The students enrolled when the model starts, by primary key, and a
\* primary key no student has.
InitialStudents == {1, 2}

UnknownPk == Cardinality(InitialStudents) + 1

\* A request as it reaches a view, with the view's local variables unset.
Request(kind, method, pk, post) ==
    [kind |-> kind, method |-> method, pk |-> pk, post |-> post,
     pc |-> "received", cleaned |-> << >>, scores |-> << >>,
     primary |-> "", secondary |-> "", test_id |-> 0, result_id |-> 0,
     context |-> << >>]

NQuestions(kind) ==
    IF kind = "holland" THEN HollandQuestions ELSE GardnerQuestions

\* Requests of the scoring specification: every enumerated submission, for
\* the first student; plus rejected submissions, a GET and an unknown pk.
ScoreRequests ==
    {Request("holland", "POST", 1, post) : post \in HollandPosts}
    \cup {Request("gardner", "POST", 1, post) : post \in GardnerPosts}
    \cup UNION {{Request(kind, "POST", 1, post) :
                    post \in InvalidPosts(NQuestions(kind))} :
                kind \in {"holland", "gardner"}}
    \cup {Request("ss", "POST", 1, post) : post \in SsPosts}
    \cup {Request("ss", "POST", 1, [ConstPost(SsQuestions, 0) EXCEPT ![q] = bad]) :
            q \in 1..SsQuestions, bad \in {"", Str(SsScaleMax + 1)}}
    \cup {Request(kind, "GET", 1, << >>) : kind \in {"holland", "gardner"}}
    \cup {Request(kind, "POST", UnknownPk,
                   ConstPost(NQuestions(kind), ScaleMin)) :
            kind \in {"holland", "gardner"}}

-----------------------------------------------------------------------------
\* The store and the views.

TypeOK ==
    /\ students \subseteq InitialStudents
    /\ seq \in [{"holland_test", "holland_result", "gardner_test",
                 "gardner_result"} -> Nat]
    /\ \A t \in holland_tests : t.id \in 1..(seq.holland_test - 1)
    /\ \A t \in gardner_tests : t.id \in 1..(seq.gardner_test - 1)
    /\ \A x \in holland_results : x.id \in 1..(seq.holland_result - 1)
    /\ \A x \in gardner_results : x.id \in 1..(seq.gardner_result - 1)
    /\ \A i \in DOMAIN requests :
          requests[i].pc \in {"received", "found", "not_found", "redirected",
                              "valid", "scored", "test_saved", "done",
                              "error", "rendered", "deleted"}

EmptyStore ==
    /\ students = InitialStudents
    /\ holland_tests = {}
    /\ holland_results = {}
    /\ gardner_tests = {}
    /\ gardner_results = {}
    /\ seq = [holland_test |-> 1, holland_result |-> 1,
              gardner_test |-> 1, gardner_result |-> 1]

\* The request r with some of the view's local variables assigned.
Goto(r, pc) == [requests EXCEPT ![r].pc = pc]

\* student = get_object_or_404(Student, pk=pk), the first statement of both
\* submit views.
GetStudentOr404(r) ==
    /\ requests[r].pc = "received"
    /\ requests[r].kind \in {"holland", "gardner"}
    /\ requests' = Goto(r, IF requests[r].pk \in students
                           THEN "found" ELSE "not_found")
    /\ UNCHANGED <<store, forms>>

\* if request.method == 'POST' fails: redirect to the questionnaire page.
RedirectNotPost(r) ==
    /\ requests[r].pc = "found"
    /\ requests[r].method # "POST"
    /\ requests' = Goto(r, "redirected")
    /\ UNCHANGED <<store, forms>>

\* Mutant of HollandValidate: the form is bound and validated whatever the
\* request method is.
HollandValidateAnyMethod(r) ==
    /\ requests[r].pc = "found"
    /\ requests[r].kind = "holland"
    /\ requests' =
          [requests EXCEPT
              ![r].cleaned = cleaned_data(requests[r].post, HollandQuestions),
              ![r].pc = IF is_valid(requests[r].post, HollandQuestions)
                        THEN "valid" ELSE "redirected"]
    /\ UNCHANGED <<store, forms>>

\* form = HollandQuestionnaireForm(request.POST); form.is_valid() and its
\* else branch, which redirects back to the questionnaire.
HollandValidate(r) ==
    /\ requests[r].pc = "found"
    /\ requests[r].kind = "holland"
    /\ requests[r].method = "POST"
    /\ requests' =
          [requests EXCEPT
              ![r].cleaned = cleaned_data(requests[r].post, HollandQuestions),
              ![r].pc = IF is_valid(requests[r].post, HollandQuestions)
                        THEN "valid" ELSE "redirected"]
    /\ UNCHANGED <<store, forms>>

\* Mutant of HollandScore: the scores dict outlives the request, so the
\* realistic score of the latest stored Holland test is kept when it is
\* higher than the one computed from the submission's own answers.
HollandScoreKeepsState(r) ==
    /\ requests[r].pc = "valid"
    /\ requests[r].kind = "holland"
    /\ LET own == calculate_holland_scores(requests[r].cleaned)
           latest == CHOOSE t \in holland_tests :
                        \A u \in holland_tests : u.id <= t.id
           scores == IF holland_tests = {} THEN own
                     ELSE IF latest.realistic_score <= own[1][2] THEN own
                     ELSE [own EXCEPT ![1] = <<"R", latest.realistic_score>>]
           sorted == sorted_scores(scores)
       IN  requests' =
              [requests EXCEPT ![r].scores = scores,
                               ![r].primary = primary_of(sorted, "R"),
                               ![r].secondary = secondary_of(sorted, "I"),
                               ![r].pc = "scored"]
    /\ UNCHANGED <<store, forms>>

\* scores = form.calculate_holland_scores() and the choice of primary_type
\* and secondary_type from sorted_scores.
HollandScore(r) ==
    /\ requests[r].pc = "valid"
    /\ requests[r].kind = "holland"
    /\ LET scores == calculate_holland_scores(requests[r].cleaned)
       IN  requests' =
              [requests EXCEPT ![r].scores = scores,
                               ![r].primary = holland_rank(scores)[1],
                               ![r].secondary = holland_rank(scores)[2],
                               ![r].pc = "scored"]
    /\ UNCHANGED <<store, forms>>

\* Mutant of HollandCreateTest: the student's score record is replaced
\* (update_or_create keyed by student) instead of a new one being added.
HollandCreateTestReplaces(r) ==
    /\ requests[r].pc = "scored"
    /\ requests[r].kind = "holland"
    /\ holland_tests' =
          {t \in holland_tests : t.student # requests[r].pk} \cup
          {[id |-> seq.holland_test,
            student |-> requests[r].pk,
            realistic_score |-> DictGet(requests[r].scores, "R", 0),
            investigative_score |-> DictGet(requests[r].scores, "I", 0),
            artistic_score |-> DictGet(requests[r].scores, "A", 0),
            social_score |-> DictGet(requests[r].scores, "S", 0),
            enterprising_score |-> DictGet(requests[r].scores, "E", 0),
            conventional_score |-> DictGet(requests[r].scores, "C", 0),
            primary_type |-> requests[r].primary,
            secondary_type |-> requests[r].secondary]}
    /\ seq' = [seq EXCEPT !.holland_test = @ + 1]
    /\ requests' = [requests EXCEPT ![r].test_id = seq.holland_test,
                                    ![r].pc = "test_saved"]
    /\ UNCHANGED <<students, holland_results, gardner_tests, gardner_results,
                 forms>>

\* Mutant of HollandCreateTest: scores, primary and secondary are kept in
\* variables shared by all requests, so the record gets the values of the
\* request that was scored last among those in flight.
HollandCreateTestSharedScores(r) ==
    /\ requests[r].pc = "scored"
    /\ requests[r].kind = "holland"
    /\ LET scored == {o \in DOMAIN requests :
                         /\ requests[o].kind = "holland"
                         /\ requests[o].pc \in {"scored", "test_saved"}}
           last == CHOOSE o \in scored : \A p \in scored : p <= o
       IN  holland_tests' = holland_tests \cup
             {[id |-> seq.holland_test,
               student |-> requests[r].pk,
               realistic_score |-> DictGet(requests[last].scores, "R", 0),
               investigative_score |-> DictGet(requests[last].scores, "I", 0),
               artistic_score |-> DictGet(requests[last].scores, "A", 0),
               social_score |-> DictGet(requests[last].scores, "S", 0),
               enterprising_score |-> DictGet(requests[last].scores, "E", 0),
               conventional_score |-> DictGet(requests[last].scores, "C", 0),
               primary_type |-> requests[last].primary,
               secondary_type |-> requests[last].secondary]}
    /\ seq' = [seq EXCEPT !.holland_test = @ + 1]
    /\ requests' = [requests EXCEPT ![r].test_id = seq.holland_test,
                                    ![r].pc = "test_saved"]
    /\ UNCHANGED <<students, holland_results, gardner_tests, gardner_results,
                 forms>>

\* Mutant of HollandCreateTest: realistic_score is filled from scores['I']
\* and investigative_score from scores['R'].
HollandCreateTestSwapsFields(r) ==
    /\ requests[r].pc = "scored"
    /\ requests[r].kind = "holland"
    /\ holland_tests' = holland_tests \cup
          {[id |-> seq.holland_test,
            student |-> requests[r].pk,
            realistic_score |-> DictGet(requests[r].scores, "I", 0),
            investigative_score |-> DictGet(requests[r].scores, "R", 0),
            artistic_score |-> DictGet(requests[r].scores, "A", 0),
            social_score |-> DictGet(requests[r].scores, "S", 0),
            enterprising_score |-> DictGet(requests[r].scores, "E", 0),
            conventional_score |-> DictGet(requests[r].scores, "C", 0),
            primary_type |-> requests[r].primary,
            secondary_type |-> requests[r].secondary]}
    /\ seq' = [seq EXCEPT !.holland_test = @ + 1]
    /\ requests' = [requests EXCEPT ![r].test_id = seq.holland_test,
                                    ![r].pc = "test_saved"]
    /\ UNCHANGED <<students, holland_results, gardner_tests, gardner_results,
                 forms>>

\* holland_test = HollandTest.objects.create(...): the first write, committed
\* on its own (the view opens no transaction). The rows a create refers to
\* (student, and holland_test for the second write) must exist: the foreign
\* keys are enforced by the database, and a create that refers to a deleted
\* row raises (CreateTestFails, CreateResultFails).
HollandCreateTest(r) ==
    /\ requests[r].pc = "scored"
    /\ requests[r].kind = "holland"
    /\ requests[r].pk \in students
    /\ holland_tests' = holland_tests \cup
          {[id |-> seq.holland_test,
            student |-> requests[r].pk,
            realistic_score |-> DictGet(requests[r].scores, "R", 0),
            investigative_score |-> DictGet(requests[r].scores, "I", 0),
            artistic_score |-> DictGet(requests[r].scores, "A", 0),
            social_score |-> DictGet(requests[r].scores, "S", 0),
            enterprising_score |-> DictGet(requests[r].scores, "E", 0),
            conventional_score |-> DictGet(requests[r].scores, "C", 0),
            primary_type |-> requests[r].primary,
            secondary_type |-> requests[r].secondary]}
    /\ seq' = [seq EXCEPT !.holland_test = @ + 1]
    /\ requests' = [requests EXCEPT ![r].test_id = seq.holland_test,
                                    ![r].pc = "test_saved"]
    /\ UNCHANGED <<students, holland_results, gardner_tests, gardner_results,
                 forms>>

\* Mutant of holland_questionnaire_responses: the key looked up is never in
\* cleaned_data, so every response is the default 1.
holland_questionnaire_responses_default(cleaned) ==
    [i \in 1..HollandQuestions |-> 1]

\* questionnaire_responses = {f'q{i}': int(form.cleaned_data.get(f'q{i}', 1))
\*                            for i in range(1, 37)}
holland_questionnaire_responses(cleaned) ==
    [i \in 1..HollandQuestions |-> holland_response_value(cleaned, i)]

\* Mutant of HollandCreateResult: the raw-response record is linked to the
\* latest stored HollandTest, not to the one this view created.
HollandCreateResultLinksLatest(r) ==
    /\ requests[r].pc = "test_saved"
    /\ requests[r].kind = "holland"
    /\ holland_results' = holland_results \cup
          {[id |-> seq.holland_result,
            student |-> requests[r].pk,
            holland_test |-> seq.holland_test - 1,
            q |-> holland_questionnaire_responses(requests[r].cleaned)]}
    /\ seq' = [seq EXCEPT !.holland_result = @ + 1]
    /\ requests' = [requests EXCEPT ![r].result_id = seq.holland_result,
                                    ![r].pc = "done"]
    /\ UNCHANGED <<students, holland_tests, gardner_tests, gardner_results,
                 forms>>

\* HollandQuestionnaireResult.objects.create(...): the second write.
HollandCreateResult(r) ==
    /\ requests[r].pc = "test_saved"
    /\ requests[r].kind = "holland"
    /\ requests[r].pk \in students
    /\ \E t \in holland_tests : t.id = requests[r].test_id
    /\ holland_results' = holland_results \cup
          {[id |-> seq.holland_result,
            student |-> requests[r].pk,
            holland_test |-> requests[r].test_id,
            q |-> holland_questionnaire_responses(requests[r].cleaned)]}
    /\ seq' = [seq EXCEPT !.holland_result = @ + 1]
    /\ requests' = [requests EXCEPT ![r].result_id = seq.holland_result,
                                    ![r].pc = "done"]
    /\ UNCHANGED <<students, holland_tests, gardner_tests, gardner_results,
                 forms>>

\* form = GardnerQuestionnaireForm(request.POST); form.is_valid() and its
\* else branch.
GardnerValidate(r) ==
    /\ requests[r].pc = "found"
    /\ requests[r].kind = "gardner"
    /\ requests[r].method = "POST"
    /\ requests' =
          [requests EXCEPT
              ![r].cleaned = cleaned_data(requests[r].post, GardnerQuestions),
              ![r].pc = IF is_valid(requests[r].post, GardnerQuestions)
                        THEN "valid" ELSE "redirected"]
    /\ UNCHANGED <<store, forms>>

\* scores = form.calculate_gardner_scores() and the choice of
\* primary_intelligence and secondary_intelligence from sorted_scores.
GardnerScore(r) ==
    /\ requests[r].pc = "valid"
    /\ requests[r].kind = "gardner"
    /\ LET scores == calculate_gardner_scores(GardnerFields,
                                              requests[r].cleaned)
       IN  requests' =
              [requests EXCEPT
                  ![r].scores = scores,
                  ![r].primary = gardner_rank(scores)[1],
                  ![r].secondary = gardner_rank(scores)[2],
                  ![r].pc = "scored"]
    /\ UNCHANGED <<store, forms>>

\* Mutant of GardnerCreateTest: naturalist_score is read with the key
\* 'naturalistic', which scores does not have.
GardnerCreateTestMisspellsKey(r) ==
    /\ requests[r].pc = "scored"
    /\ requests[r].kind = "gardner"
    /\ gardner_tests' = gardner_tests \cup
          {[id |-> seq.gardner_test,
            student |-> requests[r].pk,
            linguistic_score |-> DictGet(requests[r].scores, "linguistic", 0),
            logical_score |-> DictGet(requests[r].scores, "logical", 0),
            spatial_score |-> DictGet(requests[r].scores, "spatial", 0),
            musical_score |-> DictGet(requests[r].scores, "musical", 0),
            bodily_score |-> DictGet(requests[r].scores, "bodily", 0),
            interpersonal_score |->
                DictGet(requests[r].scores, "interpersonal", 0),
            intrapersonal_score |->
                DictGet(requests[r].scores, "intrapersonal", 0),
            naturalist_score |-> DictGet(requests[r].scores, "naturalistic", 0),
            primary_intelligence |-> requests[r].primary,
            secondary_intelligence |-> requests[r].secondary]}
    /\ seq' = [seq EXCEPT !.gardner_test = @ + 1]
    /\ requests' = [requests EXCEPT ![r].test_id = seq.gardner_test,
                                    ![r].pc = "test_saved"]
    /\ UNCHANGED <<students, holland_tests, holland_results, gardner_results,
                 forms>>

\* gardner_test = GardnerTest.objects.create(...): the first write.
GardnerCreateTest(r) ==
    /\ requests[r].pc = "scored"
    /\ requests[r].kind = "gardner"
    /\ requests[r].pk \in students
    /\ gardner_tests' = gardner_tests \cup
          {[id |-> seq.gardner_test,
            student |-> requests[r].pk,
            linguistic_score |-> DictGet(requests[r].scores, "linguistic", 0),
            logical_score |-> DictGet(requests[r].scores, "logical", 0),
            spatial_score |-> DictGet(requests[r].scores, "spatial", 0),
            musical_score |-> DictGet(requests[r].scores, "musical", 0),
            bodily_score |-> DictGet(requests[r].scores, "bodily", 0),
            interpersonal_score |->
                DictGet(requests[r].scores, "interpersonal", 0),
            intrapersonal_score |->
                DictGet(requests[r].scores, "intrapersonal", 0),
            naturalist_score |-> DictGet(requests[r].scores, "naturalist", 0),
            primary_intelligence |-> requests[r].primary,
            secondary_intelligence |-> requests[r].secondary]}
    /\ seq' = [seq EXCEPT !.gardner_test = @ + 1]
    /\ requests' = [requests EXCEPT ![r].test_id = seq.gardner_test,
                                    ![r].pc = "test_saved"]
    /\ UNCHANGED <<students, holland_tests, holland_results, gardner_results,
                 forms>>

\* questionnaire_responses = {f'q{i}': int(form.cleaned_data.get(f'q{i}', 1))
\*                            for i in range(1, 25)}
gardner_questionnaire_responses(cleaned) ==
    [i \in 1..GardnerQuestions |->
        IF i \in DOMAIN cleaned THEN PyInt(cleaned[i]) ELSE 1]

\* GardnerQuestionnaireResult.objects.create(...): the second write.
GardnerCreateResult(r) ==
    /\ requests[r].pc = "test_saved"
    /\ requests[r].kind = "gardner"
    /\ requests[r].pk \in students
    /\ \E t \in gardner_tests : t.id = requests[r].test_id
    /\ gardner_results' = gardner_results \cup
          {[id |-> seq.gardner_result,
            student |-> requests[r].pk,
            gardner_test |-> requests[r].test_id,
            q |-> gardner_questionnaire_responses(requests[r].cleaned)]}
    /\ seq' = [seq EXCEPT !.gardner_result = @ + 1]
    /\ requests' = [requests EXCEPT ![r].result_id = seq.gardner_result,
                                    ![r].pc = "done"]
    /\ UNCHANGED <<students, holland_tests, holland_results, gardner_tests,
                 forms>>

\* objects.create(...) raises (the database rejects or loses the write): the
\* exception leaves the view, which catches nothing and rolls nothing back.
CreateTestFails(r) ==
    /\ requests[r].pc = "scored"
    /\ requests' = Goto(r, "error")
    /\ UNCHANGED <<store, forms>>

CreateResultFails(r) ==
    /\ requests[r].pc = "test_saved"
    /\ requests' = Goto(r, "error")
    /\ UNCHANGED <<store, forms>>

\* queryset.first() of a related manager whose model orders by -test_date:
\* the row with the latest test_date, as a set (empty for None). test_date is
\* set by auto_now_add when the row is created, so among rows created one
\* after the other it grows with the id.
first(rows) == {t \in rows : \A u \in rows : u.id <= t.id}

\* Mutant of StudentPersonality: the latest records of the whole tables are
\* shown, without the filter on the student.
StudentPersonalityAnyStudent(r) ==
    /\ requests[r].pc = "received"
    /\ requests[r].kind = "personality"
    /\ IF requests[r].pk \in students
       THEN requests' =
               [requests EXCEPT
                   ![r].context =
                       [holland_test |-> first(holland_tests),
                        gardner_test |-> first(gardner_tests)],
                   ![r].pc = "rendered"]
       ELSE requests' = Goto(r, "not_found")
    /\ UNCHANGED <<store, forms>>

\* student_personality: get_object_or_404, then the context with
\* student.holland_tests.first() and student.gardner_tests.first().
StudentPersonality(r) ==
    /\ requests[r].pc = "received"
    /\ requests[r].kind = "personality"
    /\ IF requests[r].pk \in students
       THEN requests' =
               [requests EXCEPT
                   ![r].context =
                       [holland_test |->
                            first({t \in holland_tests :
                                      t.student = requests[r].pk}),
                        gardner_test |->
                            first({t \in gardner_tests :
                                      t.student = requests[r].pk})],
                   ![r].pc = "rendered"]
       ELSE requests' = Goto(r, "not_found")
    /\ UNCHANGED <<store, forms>>

\* Mutant of DeleteStudent: the rows that refer to the student are kept
\* (on_delete=DO_NOTHING without a database constraint).
DeleteStudentKeepsRows(r) ==
    /\ requests[r].pc = "received"
    /\ requests[r].kind = "delete"
    /\ IF requests[r].method # "POST"
       THEN requests' = Goto(r, "redirected") /\ UNCHANGED store
       ELSE IF requests[r].pk \notin students
       THEN requests' = Goto(r, "not_found") /\ UNCHANGED store
       ELSE /\ students' = students \ {requests[r].pk}
            /\ requests' = Goto(r, "deleted")
            /\ UNCHANGED <<holland_tests, holland_results, gardner_tests,
                           gardner_results, seq>>
    /\ UNCHANGED forms

\* delete_student: a non-POST request is redirected; a POST gets the student
\* or 404 and student.delete(), which deletes in one transaction the student
\* and, through on_delete=CASCADE, every row that refers to the student or
\* to one of the student's score records.
DeleteStudent(r) ==
    /\ requests[r].pc = "received"
    /\ requests[r].kind = "delete"
    /\ IF requests[r].method # "POST"
       THEN requests' = Goto(r, "redirected") /\ UNCHANGED store
       ELSE IF requests[r].pk \notin students
       THEN requests' = Goto(r, "not_found") /\ UNCHANGED store
       ELSE LET gone_holland == {t.id : t \in {u \in holland_tests :
                                              u.student = requests[r].pk}}
                gone_gardner == {t.id : t \in {u \in gardner_tests :
                                              u.student = requests[r].pk}}
            IN  /\ students' = students \ {requests[r].pk}
                /\ holland_tests' =
                      {t \in holland_tests : t.student # requests[r].pk}
                /\ gardner_tests' =
                      {t \in gardner_tests : t.student # requests[r].pk}
                /\ holland_results' =
                      {x \in holland_results :
                          /\ x.student # requests[r].pk
                          /\ x.holland_test \notin gone_holland}
                /\ gardner_results' =
                      {x \in gardner_results :
                          /\ x.student # requests[r].pk
                          /\ x.gardner_test \notin gone_gardner}
                /\ requests' = Goto(r, "deleted")
                /\ UNCHANGED seq
    /\ UNCHANGED forms

\* The 41-question variant scores a valid submission and ranks its
\* categories, ties in declaration order; it rejects any other submission.
SsSubmit(r) ==
    /\ requests[r].pc = "received"
    /\ requests[r].kind = "ss"
    /\ IF ss_is_valid(requests[r].post)
       THEN LET scores == calculate_ss_scores(requests[r].post)
                sorted == sorted_scores(scores)
            IN  requests' =
                   [requests EXCEPT
                       ![r].scores = scores,
                       ![r].primary = sorted[1][1],
                       ![r].secondary = sorted[2][1],
                       ![r].pc = "done"]
       ELSE requests' = Goto(r, "error")
    /\ UNCHANGED <<store, forms>>

-----------------------------------------------------------------------------
\* The scoring specification: one request, drawn from ScoreRequests, served
\* against a store without records.

InitScore ==
    /\ EmptyStore
    /\ \E request \in ScoreRequests : requests = <<request>>
    /\ forms = << >>

NextScore ==
    \/ \E r \in DOMAIN requests : GetStudentOr404(r)
    \/ \E r \in DOMAIN requests : RedirectNotPost(r)
    \/ \E r \in DOMAIN requests : HollandValidate(r)
    \/ \E r \in DOMAIN requests : HollandScore(r)
    \/ \E r \in DOMAIN requests : HollandCreateTest(r)
    \/ \E r \in DOMAIN requests : HollandCreateResult(r)
    \/ \E r \in DOMAIN requests : GardnerValidate(r)
    \/ \E r \in DOMAIN requests : GardnerScore(r)
    \/ \E r \in DOMAIN requests : GardnerCreateTest(r)
    \/ \E r \in DOMAIN requests : GardnerCreateResult(r)
    \/ \E r \in DOMAIN requests : CreateTestFails(r)
    \/ \E r \in DOMAIN requests : CreateResultFails(r)
    \/ \E r \in DOMAIN requests : SsSubmit(r)

SpecScore == InitScore /\ [][NextScore]_vars

-----------------------------------------------------------------------------
\* The store specifications. Requests arrive one after another. In the
\* concurrent specification up to MaxRequests requests are served at once,
\* each view advancing by one statement at a time; in the serial
\* specification up to MaxSerial requests are served one at a time, as by a
\* single-threaded server.

\* A complete submission that answers the top of the scale to the questions
\* of the first category and the bottom of the scale to the others.
FirstCategoryPost(kind) ==
    [q \in 1..NQuestions(kind) |->
        IF (IF kind = "holland" THEN HollandPlace[q].cat
            ELSE GardnerPlace[q].cat) = 1
        THEN Str(ScaleMax) ELSE Str(ScaleMin)]

\* A submission without an answer to the first question.
IncompletePost(kind) ==
    [ConstPost(NQuestions(kind), ScaleMin) EXCEPT ![1] = ""]

\* The requests clients send in the concurrent specification.
StoreRequests ==
    {Request("holland", "POST", 1, ConstPost(HollandQuestions, ScaleMin)),
     Request("holland", "POST", 1, FirstCategoryPost("holland")),
     Request("gardner", "POST", 1, ConstPost(GardnerQuestions, ScaleMax)),
     Request("holland", "POST", 1, IncompletePost("holland")),
     Request("gardner", "GET", 1, << >>),
     Request("gardner", "POST", UnknownPk,
             ConstPost(GardnerQuestions, ScaleMin)),
     Request("holland", "POST", 2, ConstPost(HollandQuestions, ScaleMin))}

\* The requests clients send in the serial specification.
SerialRequests == StoreRequests

\* The view of request r has returned or raised.
Finished(r) ==
    requests[r].pc \in {"not_found", "redirected", "done", "error",
                        "rendered", "deleted"}

\* A client sends a request while others may still be served.
Receive ==
    /\ Len(requests) < MaxRequests
    /\ \E request \in StoreRequests : requests' = Append(requests, request)
    /\ UNCHANGED <<store, forms>>

\* A client sends a request once every earlier one has been answered.
ReceiveSerial ==
    /\ Len(requests) < MaxSerial
    /\ \A r \in DOMAIN requests : Finished(r)
    /\ \E request \in SerialRequests : requests' = Append(requests, request)
    /\ UNCHANGED <<store, forms>>

Init ==
    /\ EmptyStore
    /\ requests = << >>
    /\ forms = << >>

Next ==
    \/ Receive
    \/ \E r \in DOMAIN requests : GetStudentOr404(r)
    \/ \E r \in DOMAIN requests : RedirectNotPost(r)
    \/ \E r \in DOMAIN requests : HollandValidate(r)
    \/ \E r \in DOMAIN requests : HollandScore(r)
    \/ \E r \in DOMAIN requests : HollandCreateTest(r)
    \/ \E r \in DOMAIN requests : HollandCreateResult(r)
    \/ \E r \in DOMAIN requests : GardnerValidate(r)
    \/ \E r \in DOMAIN requests : GardnerScore(r)
    \/ \E r \in DOMAIN requests : GardnerCreateTest(r)
    \/ \E r \in DOMAIN requests : GardnerCreateResult(r)
    \/ \E r \in DOMAIN requests : CreateTestFails(r)
    \/ \E r \in DOMAIN requests : CreateResultFails(r)

Spec == Init /\ [][Next]_vars

NextSerial ==
    \/ ReceiveSerial
    \/ \E r \in DOMAIN requests : GetStudentOr404(r)
    \/ \E r \in DOMAIN requests : RedirectNotPost(r)
    \/ \E r \in DOMAIN requests : HollandValidate(r)
    \/ \E r \in DOMAIN requests : HollandScore(r)
    \/ \E r \in DOMAIN requests : HollandCreateTest(r)
    \/ \E r \in DOMAIN requests : HollandCreateResult(r)
    \/ \E r \in DOMAIN requests : GardnerValidate(r)
    \/ \E r \in DOMAIN requests : GardnerScore(r)
    \/ \E r \in DOMAIN requests : GardnerCreateTest(r)
    \/ \E r \in DOMAIN requests : GardnerCreateResult(r)
    \/ \E r \in DOMAIN requests : CreateTestFails(r)
    \/ \E r \in DOMAIN requests : CreateResultFails(r)

SpecSerial == Init /\ [][NextSerial]_vars

-----------------------------------------------------------------------------
\* The forms used directly: a caller binds a form to submitted data, runs
\* is_valid() and calls the scorer whatever is_valid() returned. forms holds
\* the form instances: their fields, their data, cleaned_data once is_valid()
\* has run, and the scorer's locals and return value once it has returned.

\* form.cleaned_data after is_valid(): the fields of the form that passed
\* validation.
form_cleaned_data(fields, post) ==
    [q \in {x \in fields : x \in DOMAIN post /\ post[x] \in Choices}
        |-> post[q]]

\* A form bound to a post.
Form(kind, fields, post) ==
    [kind |-> kind, fields |-> fields, post |-> post, pc |-> "bound",
     cleaned |-> << >>, max_possible |-> << >>, scores |-> << >>,
     primary |-> "", secondary |-> ""]

\* The field sets of a Gardner form: the one __init__ builds, and the ones
\* left when the fields of one intelligence type have been removed from
\* self.fields.
GardnerFieldSets ==
    {GardnerFields} \cup
    {GardnerFields \ gardner_fields_of(GardnerFields, intelligence_types[i]) :
        i \in DOMAIN intelligence_types}

\* The forms of the scorer specification: complete and defective posts for
\* both kinds, and for Gardner every field set.
ScorerForms ==
    {Form("holland", 1..HollandQuestions, post) :
        post \in {ConstPost(HollandQuestions, ScaleMin),
                  ConstPost(HollandQuestions, ScaleMax)}
                 \cup InvalidPosts(HollandQuestions)}
    \cup
    {Form("gardner", fields, post) :
        fields \in GardnerFieldSets,
        post \in {ConstPost(GardnerQuestions, ScaleMin),
                  ConstPost(GardnerQuestions, ScaleMax)}
                 \cup InvalidPosts(GardnerQuestions)}

\* form.is_valid(): cleaned_data is filled with the fields that validate.
FormIsValid(f) ==
    /\ forms[f].pc = "bound"
    /\ forms' = [forms EXCEPT
                    ![f].cleaned = form_cleaned_data(forms[f].fields,
                                                     forms[f].post),
                    ![f].pc = "cleaned"]
    /\ UNCHANGED <<store, requests>>

\* form.calculate_holland_scores(): it has no raise statement and
\* cleaned_data.get never raises, so it returns.
CalculateHollandScores(f) ==
    /\ forms[f].pc = "cleaned"
    /\ forms[f].kind = "holland"
    /\ forms' = [forms EXCEPT
                    ![f].scores = calculate_holland_scores(forms[f].cleaned),
                    ![f].max_possible =
                        [i \in DOMAIN question_mapping |->
                            <<question_mapping[i][1], HollandMaxPossible>>],
                    ![f].pc = "returned"]
    /\ UNCHANGED <<store, requests>>

\* form.calculate_gardner_scores(): it has no raise statement either;
\* max_possible is its local of that name, per intelligence type.
CalculateGardnerScores(f) ==
    /\ forms[f].pc = "cleaned"
    /\ forms[f].kind = "gardner"
    /\ forms' = [forms EXCEPT
                    ![f].scores = calculate_gardner_scores(forms[f].fields,
                                                           forms[f].cleaned),
                    ![f].max_possible =
                        [i \in DOMAIN intelligence_types |->
                            <<intelligence_types[i],
                              gardner_max_possible(
                                  type_counts(forms[f].fields,
                                              forms[f].cleaned,
                                              intelligence_types[i]))>>],
                    ![f].pc = "returned"]
    /\ UNCHANGED <<store, requests>>

InitScorer ==
    /\ EmptyStore
    /\ requests = << >>
    /\ \E form \in ScorerForms : forms = <<form>>

NextScorer ==
    \/ \E f \in DOMAIN forms : FormIsValid(f)
    \/ \E f \in DOMAIN forms : CalculateHollandScores(f)
    \/ \E f \in DOMAIN forms : CalculateGardnerScores(f)

SpecScorer == InitScorer /\ [][NextScorer]_vars

-----------------------------------------------------------------------------
\* The rank selection of the submit views applied to a scores dict of any
\* length: the expressions guard against a dict of fewer than two items,
\* which the scorers of the two forms never return.

\* The percentages the items of such a dict carry.
RankValues == {20, 60, 100}

\* The dicts of at most MaxRankItems items with different keys among labels,
\* as sequences of <<label, percentage>> pairs in insertion order.
ScoreDicts(labels) ==
    UNION {{s \in [1..n -> labels \X RankValues] :
               \A i, j \in 1..n : i # j => s[i][1] # s[j][1]} :
           n \in 0..MaxRankItems}

\* A form whose scorer has returned scores.
ReturnedForm(kind, scores) ==
    [Form(kind, {}, << >>) EXCEPT !.pc = "returned", !.scores = scores]

\* sorted_scores, primary and secondary of a submit view, from the scores
\* the scorer returned.
SelectRank(f) ==
    /\ forms[f].pc = "returned"
    /\ LET rank == IF forms[f].kind = "holland"
                   THEN holland_rank(forms[f].scores)
                   ELSE gardner_rank(forms[f].scores)
       IN  forms' = [forms EXCEPT ![f].primary = rank[1],
                                  ![f].secondary = rank[2],
                                  ![f].pc = "ranked"]
    /\ UNCHANGED <<store, requests>>

InitRank ==
    /\ EmptyStore
    /\ requests = << >>
    /\ \E form \in {ReturnedForm("holland", s) : s \in ScoreDicts(HollandKeys)}
                   \cup {ReturnedForm("gardner", s) :
                            s \in ScoreDicts(GardnerKeys)} :
          forms = <<form>>

NextRank == \E f \in DOMAIN forms : SelectRank(f)

SpecRank == InitRank /\ [][NextRank]_vars

-----------------------------------------------------------------------------
\* The answer specification: one valid submission that differs from a
\* constant one in at most one answer, validated and scored. These
\* submissions give a category every sum it can have (6..30 for Holland,
\* 3..15 for Gardner).

\* The post that answers v to question q and fill to the others.
OneOffPost(nquestions, fill, q, v) ==
    [ConstPost(nquestions, fill) EXCEPT ![q] = Str(v)]

AnswerRequests ==
    {Request("holland", "POST", 1, OneOffPost(HollandQuestions, fill, q, v)) :
        fill \in Scale, q \in 1..HollandQuestions, v \in Scale}
    \cup
    {Request("gardner", "POST", 1, OneOffPost(GardnerQuestions, fill, q, v)) :
        fill \in Scale, q \in 1..GardnerQuestions, v \in Scale}

InitAnswer ==
    /\ EmptyStore
    /\ \E request \in AnswerRequests : requests = <<request>>
    /\ forms = << >>

NextAnswer ==
    \/ \E r \in DOMAIN requests : GetStudentOr404(r)
    \/ \E r \in DOMAIN requests : HollandValidate(r)
    \/ \E r \in DOMAIN requests : HollandScore(r)
    \/ \E r \in DOMAIN requests : GardnerValidate(r)
    \/ \E r \in DOMAIN requests : GardnerScore(r)

SpecAnswer == InitAnswer /\ [][NextAnswer]_vars

-----------------------------------------------------------------------------
\* The dashboard specification: submissions, non-POST requests to the submit
\* views and requests for the personality dashboard, one at a time, with a
\* database that accepts every write.

DashboardRequests ==
    {Request("holland", "POST", 1, FirstCategoryPost("holland")),
     Request("holland", "POST", 1, ConstPost(HollandQuestions, ScaleMin)),
     Request("holland", "POST", 2, ConstPost(HollandQuestions, ScaleMax)),
     Request("gardner", "POST", 1, FirstCategoryPost("gardner")),
     Request("gardner", "POST", 1, ConstPost(GardnerQuestions, ScaleMax)),
     Request("holland", "GET", 1, ConstPost(HollandQuestions, ScaleMin)),
     Request("gardner", "GET", 1, ConstPost(GardnerQuestions, ScaleMin)),
     Request("personality", "GET", 1, << >>),
     Request("personality", "GET", 2, << >>)}

ReceiveDashboard ==
    /\ Len(requests) < MaxDashboard
    /\ \A r \in DOMAIN requests : Finished(r)
    /\ \E request \in DashboardRequests : requests' = Append(requests, request)
    /\ UNCHANGED <<store, forms>>

NextDashboard ==
    \/ ReceiveDashboard
    \/ \E r \in DOMAIN requests : GetStudentOr404(r)
    \/ \E r \in DOMAIN requests : RedirectNotPost(r)
    \/ \E r \in DOMAIN requests : HollandValidate(r)
    \/ \E r \in DOMAIN requests : HollandScore(r)
    \/ \E r \in DOMAIN requests : HollandCreateTest(r)
    \/ \E r \in DOMAIN requests : HollandCreateResult(r)
    \/ \E r \in DOMAIN requests : GardnerValidate(r)
    \/ \E r \in DOMAIN requests : GardnerScore(r)
    \/ \E r \in DOMAIN requests : GardnerCreateTest(r)
    \/ \E r \in DOMAIN requests : GardnerCreateResult(r)
    \/ \E r \in DOMAIN requests : StudentPersonality(r)

SpecDashboard == Init /\ [][NextDashboard]_vars

-----------------------------------------------------------------------------
\* The deletion specification: submissions and delete_student requests
\* served concurrently.

DeleteRequests ==
    {Request("holland", "POST", 1, FirstCategoryPost("holland")),
     Request("holland", "POST", 2, ConstPost(HollandQuestions, ScaleMin)),
     Request("gardner", "POST", 1, ConstPost(GardnerQuestions, ScaleMax)),
     Request("delete", "POST", 1, << >>),
     Request("delete", "GET", 1, << >>)}

ReceiveDelete ==
    /\ Len(requests) < MaxDelete
    /\ \E request \in DeleteRequests : requests' = Append(requests, request)
    /\ UNCHANGED <<store, forms>>

NextDelete ==
    \/ ReceiveDelete
    \/ \E r \in DOMAIN requests : GetStudentOr404(r)
    \/ \E r \in DOMAIN requests : HollandValidate(r)
    \/ \E r \in DOMAIN requests : HollandScore(r)
    \/ \E r \in DOMAIN requests : HollandCreateTest(r)
    \/ \E r \in DOMAIN requests : HollandCreateResult(r)
    \/ \E r \in DOMAIN requests : GardnerValidate(r)
    \/ \E r \in DOMAIN requests : GardnerScore(r)
    \/ \E r \in DOMAIN requests : GardnerCreateTest(r)
    \/ \E r \in DOMAIN requests : GardnerCreateResult(r)
    \/ \E r \in DOMAIN requests : CreateTestFails(r)
    \/ \E r \in DOMAIN requests : CreateResultFails(r)
    \/ \E r \in DOMAIN requests : DeleteStudent(r)

SpecDelete == Init /\ [][NextDelete]_vars

-----------------------------------------------------------------------------
\* Vocabulary of the properties.

\* The answer a request carries for question q, as a number.
Answer(post, q) == CHOOSE v \in 0..9 : Str(v) = post[q]

\* The sum of the answers a request carries for a set of questions.
RECURSIVE AnswerSum(_, _)
AnswerSum(post, questions) ==
    IF questions = {} THEN 0
    ELSE LET q == CHOOSE x \in questions : TRUE
         IN  Answer(post, q) + AnswerSum(post, questions \ {q})

\* p is an integer nearest to num / den.
Nearest(p, num, den) ==
    /\ 2 * (p * den - num) <= den
    /\ 2 * (num - p * den) <= den

\* The view of request r has computed its scores.
Scored(r) == requests[r].pc \in {"scored", "test_saved", "done"}

HollandRequests == {r \in DOMAIN requests : requests[r].kind = "holland"}

GardnerRequests == {r \in DOMAIN requests : requests[r].kind = "gardner"}

\* The category scores of a stored HollandTest and GardnerTest, by label.
HollandScoreOf(t) ==
    [R |-> t.realistic_score, I |-> t.investigative_score,
     A |-> t.artistic_score, S |-> t.social_score,
     E |-> t.enterprising_score, C |-> t.conventional_score]

GardnerScoreOf(t) ==
    [linguistic |-> t.linguistic_score, logical |-> t.logical_score,
     spatial |-> t.spatial_score, bodily |-> t.bodily_score,
     musical |-> t.musical_score, interpersonal |-> t.interpersonal_score,
     intrapersonal |-> t.intrapersonal_score,
     naturalist |-> t.naturalist_score]

\* The declaration orders of the categories.
HollandDeclared == <<"R", "I", "A", "S", "E", "C">>

GardnerDeclared ==
    <<"linguistic", "logical", "spatial", "bodily", "musical",
      "interpersonal", "intrapersonal", "naturalist">>

\* The first label of the order, among candidates, whose score no candidate
\* exceeds.
FirstBest(order, score, candidates) ==
    order[CHOOSE i \in DOMAIN order :
            /\ order[i] \in candidates
            /\ \A c \in candidates : score[c] <= score[order[i]]
            /\ \A j \in 1..(i - 1) :
                  order[j] \in candidates => score[order[j]] < score[order[i]]]

-----------------------------------------------------------------------------
\* Properties of the scoring specification.

\* C1: every category percentage the Holland and the Gardner scorer return
\* for a valid response set is the integer nearest to sum * 100 / max, where
\* sum is the sum of the answers to the category's questions and max is 30
\* for a Holland category and 15 for a Gardner category.
C1_PercentageIsRoundedRatio ==
    /\ \A r \in HollandRequests : Scored(r) =>
          \A i \in DOMAIN requests[r].scores :
             Nearest(requests[r].scores[i][2],
                     100 * AnswerSum(requests[r].post,
                                     Range(question_mapping[i][2])),
                     30)
    /\ \A r \in GardnerRequests : Scored(r) =>
          \A i \in DOMAIN requests[r].scores :
             Nearest(requests[r].scores[i][2],
                     100 * AnswerSum(requests[r].post,
                                     {q \in 1..GardnerQuestions :
                                         field_intelligence_type[q] =
                                             requests[r].scores[i][1]}),
                     15)

\* C1 witness: a scored category whose ratio sum * 100 / max has fractional
\* part two thirds, so that rounding has moved it up.
C1_Witness ==
    \E r \in HollandRequests \cup GardnerRequests :
       /\ Scored(r)
       /\ \E i \in DOMAIN requests[r].scores :
             (100 * AnswerSum(requests[r].post,
                    IF requests[r].kind = "holland"
                    THEN Range(question_mapping[i][2])
                    ELSE {q \in 1..GardnerQuestions :
                             field_intelligence_type[q] =
                                 requests[r].scores[i][1]}))
                 % (IF requests[r].kind = "holland" THEN 30 ELSE 15)
              = (IF requests[r].kind = "holland" THEN 20 ELSE 10)

\* C2: each of the six percentages calculate_holland_scores returns for a
\* valid response set is an integer between 0 and 100.
C2_HollandPercentageInRange ==
    \A r \in HollandRequests : Scored(r) =>
       /\ Len(requests[r].scores) = 6
       /\ \A i \in DOMAIN requests[r].scores :
             requests[r].scores[i][2] \in 0..100

\* C2 witness: a scored Holland submission that reaches the top of the range
\* in one category and stays at the lowest valid score in another.
C2_Witness ==
    \E r \in HollandRequests :
       /\ Scored(r)
       /\ \E i, j \in DOMAIN requests[r].scores :
             /\ requests[r].scores[i][2] = 100
             /\ requests[r].scores[j][2] = 20

\* C3: the primary and the secondary label a submit view stores are
\* different labels, also when every category percentage is the same.
C3_PrimaryDiffersFromSecondary ==
    /\ \A t \in holland_tests : t.primary_type # t.secondary_type
    /\ \A t \in gardner_tests :
          t.primary_intelligence # t.secondary_intelligence

\* C3 witness: a stored Holland test or a stored Gardner test whose
\* categories all tie.
C3_Witness ==
    \/ \E t \in holland_tests :
          \A a, b \in HollandKeys : HollandScoreOf(t)[a] = HollandScoreOf(t)[b]
    \/ \E t \in gardner_tests :
          \A a, b \in GardnerKeys : GardnerScoreOf(t)[a] = GardnerScoreOf(t)[b]

\* C4: categories of equal percentage rank in declaration order, so the
\* stored primary is the first declared category of the highest percentage
\* and the stored secondary the first declared one of the highest percentage
\* among the others.
C4_TiesResolveInDeclarationOrder ==
    /\ \A t \in holland_tests :
          /\ t.primary_type =
                FirstBest(HollandDeclared, HollandScoreOf(t), HollandKeys)
          /\ t.secondary_type =
                FirstBest(HollandDeclared, HollandScoreOf(t),
                          HollandKeys \ {t.primary_type})
    /\ \A t \in gardner_tests :
          /\ t.primary_intelligence =
                FirstBest(GardnerDeclared, GardnerScoreOf(t), GardnerKeys)
          /\ t.secondary_intelligence =
                FirstBest(GardnerDeclared, GardnerScoreOf(t),
                          GardnerKeys \ {t.primary_intelligence})

\* C4 witness: a stored Gardner test in which bodily and musical tie for the
\* highest percentage, above every other category.
C4_Witness ==
    \E t \in gardner_tests :
       /\ t.bodily_score = t.musical_score
       /\ \A c \in GardnerKeys \ {"bodily", "musical"} :
             GardnerScoreOf(t)[c] < t.bodily_score
       /\ t.primary_intelligence = "bodily"
       /\ t.secondary_intelligence = "musical"

\* C5: the stored primary category has a percentage no other category
\* exceeds, and the stored secondary category has a percentage no category
\* other than the primary exceeds.
C5_PrimaryAndSecondaryAreHighest ==
    /\ \A t \in holland_tests :
          /\ \A c \in HollandKeys :
                HollandScoreOf(t)[c] <= HollandScoreOf(t)[t.primary_type]
          /\ \A c \in HollandKeys \ {t.primary_type} :
                HollandScoreOf(t)[c] <= HollandScoreOf(t)[t.secondary_type]
    /\ \A t \in gardner_tests :
          /\ \A c \in GardnerKeys :
                GardnerScoreOf(t)[c] <=
                    GardnerScoreOf(t)[t.primary_intelligence]
          /\ \A c \in GardnerKeys \ {t.primary_intelligence} :
                GardnerScoreOf(t)[c] <=
                    GardnerScoreOf(t)[t.secondary_intelligence]

\* C5 witness: a stored Holland test with three different percentages, the
\* primary's above the secondary's above another category's.
C5_Witness ==
    \E t \in holland_tests :
       \E c \in HollandKeys :
          /\ HollandScoreOf(t)[c] < HollandScoreOf(t)[t.secondary_type]
          /\ HollandScoreOf(t)[t.secondary_type]
                < HollandScoreOf(t)[t.primary_type]

\* C6: a submission of all 1 scores 20 in every Holland and every Gardner
\* category, and a submission of all 5 scores 100 in every category.
C6_AllMinimumAndAllMaximum ==
    \A r \in HollandRequests \cup GardnerRequests : Scored(r) =>
       /\ (\A q \in DOMAIN requests[r].post : requests[r].post[q] = "1")
             => \A i \in DOMAIN requests[r].scores :
                   requests[r].scores[i][2] = 20
       /\ (\A q \in DOMAIN requests[r].post : requests[r].post[q] = "5")
             => \A i \in DOMAIN requests[r].scores :
                   requests[r].scores[i][2] = 100

\* C6 witness: the four boundary submissions are among those scored; this
\* one is the Gardner submission of all 5.
C6_Witness ==
    \E r \in GardnerRequests :
       /\ Scored(r)
       /\ Len(requests[r].scores) = 8
       /\ \A q \in DOMAIN requests[r].post : requests[r].post[q] = "5"

\* C7: the Holland submission with q1..q6 = 5 and q7..q36 = 1 stores a score
\* record with realistic_score 100, every other category score 20 and
\* primary_type R.
C7_HollandRealisticScenario ==
    \A r \in HollandRequests :
       (/\ requests[r].pc \in {"test_saved", "done"}
        /\ \A q \in 1..HollandQuestions :
              requests[r].post[q] = IF q <= 6 THEN "5" ELSE "1")
       => \E t \in holland_tests :
             /\ t.id = requests[r].test_id
             /\ t.realistic_score = 100
             /\ t.investigative_score = 20
             /\ t.artistic_score = 20
             /\ t.social_score = 20
             /\ t.enterprising_score = 20
             /\ t.conventional_score = 20
             /\ t.primary_type = "R"

\* C7 witness: the view has stored both records of that submission.
C7_Witness ==
    \E r \in HollandRequests :
       /\ requests[r].pc = "done"
       /\ \A q \in 1..HollandQuestions :
             requests[r].post[q] = IF q <= 6 THEN "5" ELSE "1"
       /\ \E x \in holland_results : x.holland_test = requests[r].test_id

\* C8: under the 41-question variant, responses of 3 to the linguistic
\* questions 1, 10, 17, 25, 34 and of 0 to the other 36 questions score 100
\* for linguistic, 0 for every other category, and rank linguistic first.
C8_Gardner41LinguisticScenario ==
    \A r \in DOMAIN requests :
       (/\ requests[r].kind = "ss"
        /\ requests[r].pc = "done"
        /\ \A q \in 1..SsQuestions :
              requests[r].post[q] =
                 IF q \in {1, 10, 17, 25, 34} THEN "3" ELSE "0")
       => /\ Len(requests[r].scores) = 8
          /\ \A i \in DOMAIN requests[r].scores :
                requests[r].scores[i][2] =
                   IF requests[r].scores[i][1] = "linguistic" THEN 100 ELSE 0
          /\ requests[r].primary = "linguistic"

\* C8 witness: that submission has been scored.
C8_Witness ==
    \E r \in DOMAIN requests :
       /\ requests[r].kind = "ss"
       /\ requests[r].pc = "done"
       /\ \A q \in 1..SsQuestions :
             requests[r].post[q] =
                IF q \in {1, 10, 17, 25, 34} THEN "3" ELSE "0"

-----------------------------------------------------------------------------
\* Properties of the store specifications.

\* The score record the view of request r has stored.
TestOf(r) ==
    IF requests[r].kind = "holland"
    THEN {t \in holland_tests : t.id = requests[r].test_id}
    ELSE {t \in gardner_tests : t.id = requests[r].test_id}

\* The category scores and labels of a score record, without its identity.
ResultOf(t, kind) ==
    IF kind = "holland"
    THEN <<HollandScoreOf(t), t.primary_type, t.secondary_type>>
    ELSE <<GardnerScoreOf(t), t.primary_intelligence,
           t.secondary_intelligence>>

\* C9: two submissions of the same questionnaire with equal answers produce
\* equal category percentages, equal primary and equal secondary, whatever
\* other submissions were served before or between them.
C9_EqualAnswersEqualResult ==
    \A r1, r2 \in DOMAIN requests :
       (/\ requests[r1].kind = requests[r2].kind
        /\ requests[r1].post = requests[r2].post
        /\ Scored(r1)
        /\ Scored(r2))
       => /\ requests[r1].scores = requests[r2].scores
          /\ requests[r1].primary = requests[r2].primary
          /\ requests[r1].secondary = requests[r2].secondary
          /\ \A t1 \in TestOf(r1), t2 \in TestOf(r2) :
                ResultOf(t1, requests[r1].kind)
                    = ResultOf(t2, requests[r2].kind)

\* C9 witness: two stored Holland submissions with equal answers and, served
\* between them, a stored Holland submission with other answers.
C9_Witness ==
    \E r1, r2, r3 \in HollandRequests :
       /\ r1 < r2 /\ r2 < r3
       /\ requests[r1].post = requests[r3].post
       /\ requests[r1].post # requests[r2].post
       /\ \A r \in {r1, r2, r3} : requests[r].pc = "done"
       /\ \E t1 \in TestOf(r1), t2 \in TestOf(r2), t3 \in TestOf(r3) :
             t1.id < t2.id /\ t2.id < t3.id

\* C10: the two writes of a submission are atomic: whenever no view is
\* between its two writes, also after the second write of a view has
\* failed, every score record has a raw-response record linked to it.
C10_ScoreRecordHasRawResponses ==
    (\A r \in DOMAIN requests : requests[r].pc # "test_saved")
    => /\ \A t \in holland_tests :
             \E x \in holland_results : x.holland_test = t.id
       /\ \A t \in gardner_tests :
             \E x \in gardner_results : x.gardner_test = t.id

-----------------------------------------------------------------------------
\* Rejection of incomplete and out-of-scale submissions.

\* Question q of a post has no value: the request does not carry it, or
\* carries the empty string.
MissingAnswer(post, q) == q \notin DOMAIN post \/ post[q] = ""

\* A post of nquestions questions in which some question is missing or has a
\* value outside the scale ScaleMin..ScaleMax.
Defective(post, nquestions) ==
    \E q \in 1..nquestions :
        \/ MissingAnswer(post, q)
        \/ Answer(post, q) \notin ScaleMin..ScaleMax

\* The POST requests to the Holland and the Gardner view, for a known
\* student, whose post is defective.
DefectiveRequests ==
    {r \in HollandRequests \cup GardnerRequests :
        /\ requests[r].method = "POST"
        /\ requests[r].pk \in students
        /\ Defective(requests[r].post, NQuestions(requests[r].kind))}

\* C11: a POST in which any question is missing or has a value outside 1..5
\* is rejected before scoring: its view never reaches the scorer (no scores,
\* no primary or secondary label are computed), it creates no score record
\* and no raw-response record, and the stored records stay as they were
\* (here: none).
C11_DefectivePostIsRejectedBeforeScoring ==
    \A r \in DefectiveRequests :
        /\ requests[r].pc \in {"received", "found", "redirected"}
        /\ requests[r].scores = << >>
        /\ requests[r].primary = "" /\ requests[r].secondary = ""
        /\ requests[r].test_id = 0 /\ requests[r].result_id = 0
        /\ holland_tests = {} /\ holland_results = {}
        /\ gardner_tests = {} /\ gardner_results = {}

\* A Holland post with a missing question, or a Gardner post with a value
\* above the scale, has been turned away.
C11_Witness ==
    \E r \in DefectiveRequests :
        /\ requests[r].pc = "redirected"
        /\ \/ /\ requests[r].kind = "holland"
              /\ \E q \in 1..HollandQuestions :
                    q \notin DOMAIN requests[r].post
           \/ /\ requests[r].kind = "gardner"
              /\ \E q \in 1..GardnerQuestions :
                    /\ q \in DOMAIN requests[r].post
                    /\ requests[r].post[q] = "6"

-----------------------------------------------------------------------------
\* Properties of the scorers used directly.

\* The questions the map of a form refers to: the questions of
\* question_mapping for a Holland form, the fields that carry an
\* intelligence type for a Gardner form.
ReferencedQuestions(f) ==
    IF forms[f].kind = "holland"
    THEN UNION {Range(question_mapping[i][2]) : i \in DOMAIN question_mapping}
    ELSE forms[f].fields

\* C12: a scorer never returns scores for answers that lack a value for a
\* question its map refers to: run on such answers it fails instead of
\* substituting a default and continuing.
C12_ScorerFailsOnMissingResponse ==
    \A f \in DOMAIN forms :
        forms[f].pc = "returned"
            => \A q \in ReferencedQuestions(f) : q \in DOMAIN forms[f].cleaned

-----------------------------------------------------------------------------
\* The category maps.

\* The labels of a sequence of <<label, value>> pairs, in order.
Labels(pairs) == [i \in DOMAIN pairs |-> pairs[i][1]]

\* C14: the category maps are partitions. Every Holland question 1..36 is in
\* the list of exactly one of the 6 types and each type lists 6 questions;
\* every Gardner field 1..24 is tagged with exactly one of the 8 types and
\* each type tags 3 fields. Whatever a request submitted and wherever its
\* view stands, the scores it computed are keyed by those same categories.
C14_CategoryMapsArePartitions ==
    /\ Len(question_mapping) = 6
    /\ \A i \in DOMAIN question_mapping :
          /\ Len(question_mapping[i][2]) = 6
          /\ Cardinality(Range(question_mapping[i][2])) = 6
          /\ Range(question_mapping[i][2]) \subseteq 1..HollandQuestions
    /\ \A q \in 1..HollandQuestions :
          Cardinality({i \in DOMAIN question_mapping :
                          q \in Range(question_mapping[i][2])}) = 1
    /\ Len(intelligence_types) = 8
    /\ Cardinality(Range(intelligence_types)) = 8
    /\ GardnerFields = 1..GardnerQuestions
    /\ \A q \in GardnerFields :
          Cardinality({i \in DOMAIN intelligence_types :
                          intelligence_types[i] = field_intelligence_type[q]})
              = 1
    /\ \A i \in DOMAIN intelligence_types :
          Cardinality(gardner_fields_of(GardnerFields, intelligence_types[i]))
              = 3
    /\ \A r \in HollandRequests :
          Scored(r) => Labels(requests[r].scores) = Labels(question_mapping)
    /\ \A r \in GardnerRequests :
          Scored(r) => Labels(requests[r].scores) = intelligence_types

\* A request whose answers differ between categories has been scored.
C14_Witness ==
    \E r \in HollandRequests \cup GardnerRequests :
        /\ Scored(r)
        /\ \E i, j \in DOMAIN requests[r].scores :
              requests[r].scores[i][2] # requests[r].scores[j][2]

-----------------------------------------------------------------------------
\* The stored records.

\* HollandQuestionnaireResult.get_responses_by_type: the stored answers
\* grouped by Holland type, as <<type, answers>> pairs.
get_responses_by_type(x) ==
    << <<"R", <<x.q[1], x.q[2], x.q[3], x.q[4], x.q[5], x.q[6]>> >>,
       <<"I", <<x.q[7], x.q[8], x.q[9], x.q[10], x.q[11], x.q[12]>> >>,
       <<"A", <<x.q[13], x.q[14], x.q[15], x.q[16], x.q[17], x.q[18]>> >>,
       <<"S", <<x.q[19], x.q[20], x.q[21], x.q[22], x.q[23], x.q[24]>> >>,
       <<"E", <<x.q[25], x.q[26], x.q[27], x.q[28], x.q[29], x.q[30]>> >>,
       <<"C", <<x.q[31], x.q[32], x.q[33], x.q[34], x.q[35], x.q[36]>> >> >>

\* GardnerQuestionnaireResult.get_responses_by_intelligence: the stored
\* answers grouped by intelligence type.
get_responses_by_intelligence(x) ==
    << <<"linguistic", <<x.q[1], x.q[2], x.q[3]>> >>,
       <<"logical", <<x.q[4], x.q[5], x.q[6]>> >>,
       <<"spatial", <<x.q[7], x.q[8], x.q[9]>> >>,
       <<"bodily", <<x.q[10], x.q[11], x.q[12]>> >>,
       <<"musical", <<x.q[13], x.q[14], x.q[15]>> >>,
       <<"interpersonal", <<x.q[16], x.q[17], x.q[18]>> >>,
       <<"intrapersonal", <<x.q[19], x.q[20], x.q[21]>> >>,
       <<"naturalist", <<x.q[22], x.q[23], x.q[24]>> >> >>

\* C15: for every raw-response record linked to a score record, each
\* category score of the score record is the integer nearest to
\* sum * 100 / max of the stored answers that get_responses_by_type
\* (get_responses_by_intelligence) groups under that category, max being 30
\* for Holland and 15 for Gardner.
C15_StoredScoresFollowFromStoredAnswers ==
    /\ \A x \in holland_results : \A t \in holland_tests :
          x.holland_test = t.id =>
              \A g \in Range(get_responses_by_type(x)) :
                  Nearest(HollandScoreOf(t)[g[1]], SumSeq(g[2]) * 100, 30)
    /\ \A x \in gardner_results : \A t \in gardner_tests :
          x.gardner_test = t.id =>
              \A g \in Range(get_responses_by_intelligence(x)) :
                  Nearest(GardnerScoreOf(t)[g[1]], SumSeq(g[2]) * 100, 15)

\* A raw-response record whose answers differ between categories is linked
\* to a score record.
C15_Witness ==
    \/ \E x \in holland_results : \E t \in holland_tests :
          /\ x.holland_test = t.id
          /\ \E g, h \in Range(get_responses_by_type(x)) :
                SumSeq(g[2]) # SumSeq(h[2])
    \/ \E x \in gardner_results : \E t \in gardner_tests :
          /\ x.gardner_test = t.id
          /\ \E g, h \in Range(get_responses_by_intelligence(x)) :
                SumSeq(g[2]) # SumSeq(h[2])

\* The raw-response record the view of request r has stored.
RawOf(r) ==
    IF requests[r].kind = "holland"
    THEN {x \in holland_results : x.id = requests[r].result_id}
    ELSE {x \in gardner_results : x.id = requests[r].result_id}

\* The id of the score record a raw-response record of a kind is linked to.
LinkOf(x, kind) == IF kind = "holland" THEN x.holland_test ELSE x.gardner_test

\* C16: the link between raw-response records and score records is
\* one-to-one. No two raw-response records are linked to the same score
\* record; the raw-response record a submission created is linked to the
\* score record that same submission created and to no other; both records
\* of a submission belong to the student the submission was made for.
C16_RawResponsesLinkOneToOne ==
    /\ \A x, y \in holland_results :
          x.holland_test = y.holland_test => x = y
    /\ \A x, y \in gardner_results :
          x.gardner_test = y.gardner_test => x = y
    /\ \A r \in DOMAIN requests : \A x \in RawOf(r) :
          /\ LinkOf(x, requests[r].kind) = requests[r].test_id
          /\ x.student = requests[r].pk
          /\ \E t \in TestOf(r) : t.student = x.student
          /\ \A o \in DOMAIN requests :
                (o # r /\ requests[o].kind = requests[r].kind)
                    => LinkOf(x, requests[r].kind) # requests[o].test_id
    /\ \A r \in DOMAIN requests : \A t \in TestOf(r) :
          t.student = requests[r].pk

\* Two Holland submissions for different students were served interleaved:
\* the one whose score record was written first wrote its raw-response
\* record last.
C16_Witness ==
    \E r1, r2 \in HollandRequests :
        /\ requests[r1].pc = "done" /\ requests[r2].pc = "done"
        /\ requests[r1].pk # requests[r2].pk
        /\ requests[r1].test_id < requests[r2].test_id
        /\ requests[r2].result_id < requests[r1].result_id

\* Every record of a table is in the table after the step, and no record of
\* the table after the step has the id of a different earlier record.
Kept(table, tableAfter) ==
    /\ table \subseteq tableAfter
    /\ \A old \in table : \A new \in tableAfter : new.id = old.id => new = old

\* C17: no step of a submission, valid or not, for the same or another
\* student, changes or removes a stored score record or raw-response
\* record: the answers, scores, primary and secondary of every stored
\* record stay as they are and records are only added.
C17_SubmissionsOnlyAddRecords ==
    [][/\ Kept(holland_tests, holland_tests')
       /\ Kept(holland_results, holland_results')
       /\ Kept(gardner_tests, gardner_tests')
       /\ Kept(gardner_results, gardner_results')]_vars

\* After a Holland submission was stored, a Holland submission with other
\* answers was stored and then an invalid submission was turned away.
C17_Witness ==
    \E r1, r2, r3 \in HollandRequests :
        /\ r1 < r2 /\ r2 < r3
        /\ requests[r1].pc = "done" /\ requests[r2].pc = "done"
        /\ requests[r1].pk = requests[r2].pk
        /\ requests[r1].post # requests[r2].post
        /\ requests[r3].pc = "redirected"
        /\ ~is_valid(requests[r3].post, HollandQuestions)
        /\ RawOf(r1) # {} /\ TestOf(r1) # {}

\* The questions of a category, by kind and category index.
QuestionsOf(kind, i) ==
    IF kind = "holland" THEN Range(question_mapping[i][2])
    ELSE {q \in 1..GardnerQuestions :
             field_intelligence_type[q] = intelligence_types[i]}

\* C18: when the steps of several submissions (validate, score, write the
\* score record, write the raw-response record) interleave, the score record
\* of each submission holds the percentages, primary and secondary that
\* follow from that submission's own answers, and its raw-response record
\* holds its own answers and is linked to its own score record.
C18_InterleavedSubmissionsStayIndependent ==
    \A r \in DOMAIN requests :
        /\ \A t \in TestOf(r) :
              IF requests[r].kind = "holland"
              THEN /\ \A i \in DOMAIN question_mapping :
                         Nearest(HollandScoreOf(t)[HollandDeclared[i]],
                                 100 * AnswerSum(requests[r].post,
                                                 QuestionsOf("holland", i)),
                                 30)
                   /\ t.primary_type =
                         FirstBest(HollandDeclared, HollandScoreOf(t),
                                   HollandKeys)
                   /\ t.secondary_type =
                         FirstBest(HollandDeclared, HollandScoreOf(t),
                                   HollandKeys \ {t.primary_type})
              ELSE /\ \A i \in DOMAIN intelligence_types :
                         Nearest(GardnerScoreOf(t)[GardnerDeclared[i]],
                                 100 * AnswerSum(requests[r].post,
                                                 QuestionsOf("gardner", i)),
                                 15)
                   /\ t.primary_intelligence =
                         FirstBest(GardnerDeclared, GardnerScoreOf(t),
                                   GardnerKeys)
                   /\ t.secondary_intelligence =
                         FirstBest(GardnerDeclared, GardnerScoreOf(t),
                                   GardnerKeys \ {t.primary_intelligence})
        /\ \A x \in RawOf(r) :
              /\ \A q \in 1..NQuestions(requests[r].kind) :
                    x.q[q] = Answer(requests[r].post, q)
              /\ \E t \in TestOf(r) : LinkOf(x, requests[r].kind) = t.id

\* Two Holland submissions with different answers were served interleaved:
\* the first wrote its score record before the second did, and the second
\* wrote its raw-response record before the first did.
C18_Witness ==
    \E r1, r2 \in HollandRequests :
        /\ r1 < r2
        /\ requests[r1].post # requests[r2].post
        /\ requests[r1].pc = "done" /\ requests[r2].pc = "done"
        /\ requests[r1].test_id < requests[r2].test_id
        /\ requests[r2].result_id < requests[r1].result_id
        /\ \E t1 \in TestOf(r1), t2 \in TestOf(r2) :
              HollandScoreOf(t1) # HollandScoreOf(t2)

-----------------------------------------------------------------------------
\* The maximum possible score of a category.

\* C19: the maximum possible score of a category is the number of its
\* questions times 5. The Holland scorer's constant 30 is 6 * 5 for each of
\* its categories; for a Gardner form with the fields its constructor
\* builds, the scorer's max_possible is 15 = 3 * 5 for every type, whichever
\* answers cleaned_data holds.
C19_MaxPossibleIsQuestionsTimesFive ==
    \A f \in DOMAIN forms : forms[f].pc = "returned" =>
        IF forms[f].kind = "holland"
        THEN \A i \in DOMAIN question_mapping :
                /\ forms[f].max_possible[i][2]
                      = Len(question_mapping[i][2]) * 5
                /\ forms[f].max_possible[i][2] = 30
        ELSE forms[f].fields = GardnerFields =>
                \A i \in DOMAIN intelligence_types :
                   /\ forms[f].max_possible[i][2]
                         = 5 * Cardinality({q \in forms[f].fields :
                               field_intelligence_type[q] =
                                   intelligence_types[i]})
                   /\ forms[f].max_possible[i][2] = 15

\* The Gardner scorer has returned for a form with all its fields whose
\* cleaned_data lacks an answer.
C19_Witness ==
    \E f \in DOMAIN forms :
        /\ forms[f].pc = "returned"
        /\ forms[f].kind = "gardner"
        /\ forms[f].fields = GardnerFields
        /\ \E q \in GardnerFields : q \notin DOMAIN forms[f].cleaned

-----------------------------------------------------------------------------
\* The records of a successful submission.

\* The requests of a kind for student s that satisfy a condition on their
\* record.
RequestsFor(kind, s, Passed(_)) ==
    {r \in DOMAIN requests :
        /\ requests[r].kind = kind
        /\ requests[r].pk = s
        /\ Passed(requests[r])}

\* C20: a successful submission leaves exactly one new score record and one
\* new raw-response record for its student: each student has as many score
\* records (raw-response records) of a kind as submissions of that kind that
\* made their first (second) write. The raw-response record of a successful
\* submission holds the submitted answers q1..qN as integers, and its score
\* record holds the percentages the scorer returned and the primary and
\* secondary the rank selection chose.
C20_SuccessfulSubmissionStoresItsRecords ==
    /\ \A s \in InitialStudents :
          LET Wrote1(q) == q.test_id # 0
              Wrote2(q) == q.result_id # 0
          IN  /\ Cardinality({t \in holland_tests : t.student = s})
                    = Cardinality(RequestsFor("holland", s, Wrote1))
              /\ Cardinality({x \in holland_results : x.student = s})
                    = Cardinality(RequestsFor("holland", s, Wrote2))
              /\ Cardinality({t \in gardner_tests : t.student = s})
                    = Cardinality(RequestsFor("gardner", s, Wrote1))
              /\ Cardinality({x \in gardner_results : x.student = s})
                    = Cardinality(RequestsFor("gardner", s, Wrote2))
    /\ \A r \in DOMAIN requests : requests[r].pc = "done" =>
          /\ Cardinality(TestOf(r)) = 1
          /\ Cardinality(RawOf(r)) = 1
          /\ \A x \in RawOf(r) :
                /\ DOMAIN x.q = 1..NQuestions(requests[r].kind)
                /\ \A q \in DOMAIN x.q : x.q[q] = Answer(requests[r].post, q)
                /\ x.student = requests[r].pk
          /\ \A t \in TestOf(r) :
                /\ t.student = requests[r].pk
                /\ \A i \in DOMAIN requests[r].scores :
                      (IF requests[r].kind = "holland" THEN HollandScoreOf(t)
                       ELSE GardnerScoreOf(t))[requests[r].scores[i][1]]
                          = requests[r].scores[i][2]
                /\ ResultOf(t, requests[r].kind)[2] = requests[r].primary
                /\ ResultOf(t, requests[r].kind)[3] = requests[r].secondary

\* A student with a stored submission has made a second successful Holland
\* submission, whose percentages differ between categories.
C20_Witness ==
    \E r1, r2 \in DOMAIN requests :
        /\ r1 < r2
        /\ requests[r1].pk = requests[r2].pk
        /\ requests[r1].pc = "done" /\ requests[r2].pc = "done"
        /\ requests[r2].kind = "holland"
        /\ \E i, j \in DOMAIN requests[r2].scores :
              requests[r2].scores[i][2] # requests[r2].scores[j][2]

-----------------------------------------------------------------------------
\* Properties of the rank selection.

\* The fallback labels of a kind: <<primary, secondary>>.
FallbackLabels(kind) ==
    IF kind = "holland" THEN <<"R", "I">> ELSE <<"linguistic", "logical">>

\* C21: when the scores have fewer than two categories the rank selection
\* does not fail but uses fixed labels: with no category the primary is 'R'
\* (Holland) or 'linguistic' (Gardner), and with fewer than two the
\* secondary is 'I' or 'logical'; with one category the primary is that
\* category.
C21_FewerThanTwoCategoriesUseFallbacks ==
    \A f \in DOMAIN forms : forms[f].pc = "ranked" =>
        /\ Len(forms[f].scores) = 0 =>
              forms[f].primary = FallbackLabels(forms[f].kind)[1]
        /\ Len(forms[f].scores) = 1 =>
              forms[f].primary = forms[f].scores[1][1]
        /\ Len(forms[f].scores) < 2 =>
              forms[f].secondary = FallbackLabels(forms[f].kind)[2]

\* The rank selection has run on a Gardner dict without items.
C21_Witness ==
    \E f \in DOMAIN forms :
        /\ forms[f].pc = "ranked"
        /\ forms[f].kind = "gardner"
        /\ forms[f].scores = << >>
        /\ forms[f].primary = "linguistic"

-----------------------------------------------------------------------------
\* Rounding.

\* num / den rounded to the nearest integer, a half rounding up; for the
\* non-negative ratios of the scorers this is also rounding a half away from
\* zero.
RoundHalfUp(num, den) == (2 * num + den) \div (2 * den)

\* num / den rounded to the nearest integer, a half rounding to the even
\* neighbour.
RoundHalfEven(num, den) ==
    LET q == num \div den
        rem == num % den
    IN  IF 2 * rem < den THEN q
        ELSE IF 2 * rem > den THEN q + 1
        ELSE IF q % 2 = 0 THEN q ELSE q + 1

\* sum * 100 / max is not half way between two integers.
NoHalf(sum, max) == 2 * ((sum * 100) % max) # max

\* The sum of the answers of request r to the questions of the i-th
\* category of its kind.
CategorySum(r, i) ==
    AnswerSum(requests[r].post, QuestionsOf(requests[r].kind, i))

\* C22: rounding is unambiguous. For every category sum of a valid
\* submission (6..30 with max 30 for Holland, 3..15 with max 15 for
\* Gardner), sum * 100 / max is never half way between two integers, and the
\* percentage the scorer returns is the ratio rounded half up (or half away
\* from zero), which is the same as rounded half to even.
C22_RoundingIsUnambiguous ==
    /\ \A sum \in 6..30 :
          NoHalf(sum, 30)
          /\ RoundHalfUp(sum * 100, 30) = RoundHalfEven(sum * 100, 30)
    /\ \A sum \in 3..15 :
          NoHalf(sum, 15)
          /\ RoundHalfUp(sum * 100, 15) = RoundHalfEven(sum * 100, 15)
    /\ \A r \in HollandRequests \cup GardnerRequests : Scored(r) =>
          LET max == IF requests[r].kind = "holland" THEN 30 ELSE 15
          IN  \A i \in DOMAIN requests[r].scores :
                 LET sum == CategorySum(r, i)
                 IN  /\ NoHalf(sum, max)
                     /\ requests[r].scores[i][2] = RoundHalfUp(sum * 100, max)
                     /\ requests[r].scores[i][2]
                           = RoundHalfEven(sum * 100, max)

\* A Gardner category whose ratio is not an integer has been scored:
\* sum 4 of 15 gives 26.67, stored as 27.
C22_Witness ==
    \E r \in GardnerRequests :
        /\ Scored(r)
        /\ \E i \in DOMAIN requests[r].scores :
              /\ CategorySum(r, i) = 4
              /\ requests[r].scores[i][2] = 27

-----------------------------------------------------------------------------
\* The properties of the score record models.

\* Mutant of py_max_key: a later item of equal value replaces the best one.
py_max_key_last(items) ==
    items[CHOOSE i \in DOMAIN items :
             /\ \A j \in DOMAIN items : items[j][2] <= items[i][2]
             /\ \A j \in DOMAIN items : j > i => items[j][2] < items[i][2]][1]

\* max(scores, key=scores.get): the first key, in insertion order, whose
\* value no other value exceeds.
py_max_key(items) ==
    items[CHOOSE i \in DOMAIN items :
             /\ \A j \in DOMAIN items : items[j][2] <= items[i][2]
             /\ \A j \in 1..(i - 1) : items[j][2] < items[i][2]][1]

\* The scores dict of HollandTest.highest_score_type and holland_code.
holland_test_scores(t) ==
    << <<"R", t.realistic_score>>, <<"I", t.investigative_score>>,
       <<"A", t.artistic_score>>, <<"S", t.social_score>>,
       <<"E", t.enterprising_score>>, <<"C", t.conventional_score>> >>

\* HollandTest.highest_score_type
highest_score_type(t) == py_max_key(holland_test_scores(t))

\* HollandTest.holland_code: the labels of sorted_scores[:3], in order.
holland_code(t) ==
    LET sorted == sorted_scores(holland_test_scores(t))
    IN  [i \in 1..3 |-> sorted[i][1]]

\* The scores dict of GardnerTest.highest_intelligence: musical comes before
\* bodily.
gardner_test_scores(t) ==
    << <<"linguistic", t.linguistic_score>>, <<"logical", t.logical_score>>,
       <<"spatial", t.spatial_score>>, <<"musical", t.musical_score>>,
       <<"bodily", t.bodily_score>>,
       <<"interpersonal", t.interpersonal_score>>,
       <<"intrapersonal", t.intrapersonal_score>>,
       <<"naturalist", t.naturalist_score>> >>

\* GardnerTest.highest_intelligence
highest_intelligence(t) == py_max_key(gardner_test_scores(t))

\* C23: for every stored GardnerTest, highest_intelligence is the stored
\* primary_intelligence, also when several types tie for the highest score.
C23_HighestIntelligenceIsPrimary ==
    \A t \in gardner_tests : highest_intelligence(t) = t.primary_intelligence

\* C24: for every stored HollandTest, highest_score_type is the stored
\* primary_type and holland_code starts with the stored primary_type
\* followed by the stored secondary_type, also when scores tie.
C24_HollandCodeStartsWithPrimarySecondary ==
    \A t \in holland_tests :
        /\ highest_score_type(t) = t.primary_type
        /\ holland_code(t)[1] = t.primary_type
        /\ holland_code(t)[2] = t.secondary_type

\* A stored HollandTest in which two types that are not declared first tie
\* for the highest score, and one in which two types tie for the second
\* highest.
C24_Witness ==
    \E t \in holland_tests :
        \/ /\ t.social_score = t.enterprising_score
           /\ \A c \in HollandKeys \ {"S", "E"} :
                 HollandScoreOf(t)[c] < t.social_score
        \/ /\ t.artistic_score > t.social_score
           /\ t.social_score = t.conventional_score
           /\ \A c \in HollandKeys \ {"A", "S", "C"} :
                 HollandScoreOf(t)[c] < t.social_score

-----------------------------------------------------------------------------
\* Dependence of a percentage on the answers.

\* The scores the scorer of a kind returns for a post.
ScoresFor(kind, post) ==
    IF kind = "holland"
    THEN calculate_holland_scores(cleaned_data(post, HollandQuestions))
    ELSE calculate_gardner_scores(GardnerFields,
                                  cleaned_data(post, GardnerQuestions))

\* The index of the category of question q of a kind.
CategoryOf(kind, q) ==
    CHOOSE i \in 1..(IF kind = "holland" THEN Len(question_mapping)
                     ELSE Len(intelligence_types)) :
        q \in QuestionsOf(kind, i)

\* C25: a category's percentage depends only on the answers to its own
\* questions. When the scorer has returned for a submission, the same
\* submission with the answer to any one question raised by one would get
\* the same percentage in every category but the question's own, and in the
\* question's own category a percentage that is not lower.
C25_PercentageDependsOnOwnAnswers ==
    \A r \in HollandRequests \cup GardnerRequests :
        requests[r].pc = "scored" =>
            \A q \in 1..NQuestions(requests[r].kind) :
                Answer(requests[r].post, q) < ScaleMax =>
                    LET raised == [requests[r].post EXCEPT
                                      ![q] = Str(Answer(requests[r].post, q) + 1)]
                        after == ScoresFor(requests[r].kind, raised)
                        own == CategoryOf(requests[r].kind, q)
                    IN  \A i \in DOMAIN after :
                           IF i = own
                           THEN after[i][2] >= requests[r].scores[i][2]
                           ELSE after[i][2] = requests[r].scores[i][2]

\* The scorer has returned for a Holland submission that answers 4 to one
\* question and 3 to the others, in its category and in the other ones.
C25_Witness ==
    \E r \in HollandRequests :
        /\ requests[r].pc = "scored"
        /\ \E q \in 1..HollandQuestions :
              /\ Answer(requests[r].post, q) = 4
              /\ \A p \in 1..HollandQuestions \ {q} :
                    Answer(requests[r].post, p) = 3

-----------------------------------------------------------------------------
\* Range of the stored scores and reachability of the defaults.

\* C26: every category score of a score record created by a questionnaire
\* submission lies between 20 and 100; the value 0 is never stored.
C26_StoredScoresBetween20And100 ==
    /\ \A t \in holland_tests : \A c \in HollandKeys :
          HollandScoreOf(t)[c] \in 20..100
    /\ \A t \in gardner_tests : \A c \in GardnerKeys :
          GardnerScoreOf(t)[c] \in 20..100

\* A stored Gardner record with a category at 20 and a category at 100.
C26_Witness ==
    \E t \in gardner_tests : \E c, d \in GardnerKeys :
        GardnerScoreOf(t)[c] = 20 /\ GardnerScoreOf(t)[d] = 100

\* The keys of a scores dict.
KeysOf(scores) == {scores[i][1] : i \in DOMAIN scores}

\* C27: the fallbacks of the rank selection are never used. For every
\* submission that passed validation the scorer returned exactly the 6
\* Holland keys or the 8 Gardner keys, each once, so primary and secondary
\* are the first and second item of the sorted scores, and every category
\* score of the stored record is the value scores holds for its key, not
\* the default 0 of scores.get.
C27_RankFallbacksAreUnreachable ==
    /\ \A r \in HollandRequests \cup GardnerRequests : Scored(r) =>
          LET keys == IF requests[r].kind = "holland" THEN HollandKeys
                      ELSE GardnerKeys
          IN  /\ KeysOf(requests[r].scores) = keys
              /\ Len(requests[r].scores) = Cardinality(keys)
              /\ Len(requests[r].scores) >= 2
              /\ requests[r].primary \in keys
              /\ requests[r].secondary \in keys \ {requests[r].primary}
              /\ \A i \in DOMAIN requests[r].scores :
                    requests[r].scores[i][2]
                        <= DictGet(requests[r].scores, requests[r].primary, 0)
              /\ \A t \in TestOf(r) : \A i \in DOMAIN requests[r].scores :
                    (IF requests[r].kind = "holland" THEN HollandScoreOf(t)
                     ELSE GardnerScoreOf(t))[requests[r].scores[i][1]]
                        = requests[r].scores[i][2]
    /\ \A t \in holland_tests : \A c \in HollandKeys : HollandScoreOf(t)[c] # 0
    /\ \A t \in gardner_tests : \A c \in GardnerKeys : GardnerScoreOf(t)[c] # 0

\* A submission of all 1, for which every category has the lowest score, has
\* been stored with the first two declared labels as primary and secondary.
C27_Witness ==
    \E r \in HollandRequests :
        /\ requests[r].pc = "done"
        /\ \A q \in DOMAIN requests[r].post : requests[r].post[q] = "1"
        /\ requests[r].primary = "R" /\ requests[r].secondary = "I"
        /\ \E t \in TestOf(r) : t.conventional_score = 20

-----------------------------------------------------------------------------
\* Properties of the dashboard specification.

\* C28: a non-POST request to a submit view creates no score record and no
\* raw-response record and changes no stored record: every step of its view
\* leaves the tables as they are, computes nothing, and ends in the
\* redirect to the questionnaire page (or in 404 for an unknown student).
C28_NonPostRequestOnlyRedirects ==
    [][\A r \in DOMAIN requests :
          (/\ requests[r].kind \in {"holland", "gardner"}
           /\ requests[r].method # "POST"
           /\ requests'[r] # requests[r])
          => /\ UNCHANGED store
             /\ requests'[r].pc \in {"found", "not_found", "redirected"}
             /\ requests'[r].scores = << >>
             /\ requests'[r].test_id = 0
             /\ requests'[r].result_id = 0]_vars

\* After a submission was stored, a GET request to the Holland submit view
\* and one to the Gardner submit view have been redirected.
C28_Witness ==
    \E r1, r2, r3 \in DOMAIN requests :
        /\ requests[r1].pc = "done" /\ r1 < r2 /\ r1 < r3
        /\ requests[r2].kind = "holland" /\ requests[r3].kind = "gardner"
        /\ requests[r2].method = "GET" /\ requests[r3].method = "GET"
        /\ requests[r2].pc = "redirected" /\ requests[r3].pc = "redirected"
        /\ TestOf(r1) # {} /\ RawOf(r1) # {}

\* The id of the score record of a kind that the latest submission for the
\* student of request r, among the requests before r, created: as a set,
\* empty when no such submission created one.
LatestCreatedBefore(r, kind) ==
    LET made == {o \in 1..(r - 1) :
                    /\ requests[o].kind = kind
                    /\ requests[o].pk = requests[r].pk
                    /\ requests[o].test_id # 0}
    IN  {requests[o].test_id : o \in {p \in made : \A u \in made : u <= p}}

\* C29: after any sequence of submissions the personality dashboard of a
\* student shows the Holland score record and the Gardner score record that
\* the student's most recent submission of each kind created, never an
\* older one and never another student's, and shows none for a kind the
\* student has no record of.
C29_DashboardShowsLatestRecords ==
    LET r == Len(requests)
    IN  (/\ r > 0
         /\ requests[r].kind = "personality"
         /\ requests[r].pc = "rendered")
        => /\ {t.id : t \in requests[r].context.holland_test}
                 = LatestCreatedBefore(r, "holland")
           /\ {t.id : t \in requests[r].context.gardner_test}
                 = LatestCreatedBefore(r, "gardner")
           /\ \A t \in requests[r].context.holland_test
                       \cup requests[r].context.gardner_test :
                 t.student = requests[r].pk
           /\ requests[r].context.holland_test \subseteq holland_tests
           /\ requests[r].context.gardner_test \subseteq gardner_tests

\* The dashboard of a student was rendered after two Holland submissions of
\* that student with different answers, and shows the record of the second;
\* the student has no Gardner record and none is shown.
C29_Witness ==
    /\ Len(requests) = 3
    /\ requests[1].kind = "holland" /\ requests[2].kind = "holland"
    /\ requests[1].pc = "done" /\ requests[2].pc = "done"
    /\ requests[1].pk = requests[3].pk /\ requests[2].pk = requests[3].pk
    /\ requests[1].post # requests[2].post
    /\ requests[3].kind = "personality" /\ requests[3].pc = "rendered"
    /\ requests[3].context.holland_test = TestOf(2)
    /\ requests[3].context.gardner_test = {}

-----------------------------------------------------------------------------
\* Properties of the deletion specification.

\* Every record refers to a student that exists, and every raw-response
\* record to a score record that exists.
ReferencesExist ==
    /\ \A t \in holland_tests \cup gardner_tests : t.student \in students
    /\ \A x \in holland_results :
          /\ x.student \in students
          /\ \E t \in holland_tests : t.id = x.holland_test
    /\ \A x \in gardner_results :
          /\ x.student \in students
          /\ \E t \in gardner_tests : t.id = x.gardner_test

\* The records of a table that belong to student s.
RecordsOf(table, s) == {x \in table : x.student = s}

\* C30: referential integrity under deletion. In every reachable state every
\* score record and raw-response record refers to an existing student. A
\* step of delete_student with POST that deletes student s leaves no score
\* record or raw-response record of s and leaves the records of every other
\* student as they were; a step of delete_student without POST, or for an
\* unknown student, deletes nothing.
C30_DeletionKeepsReferentialIntegrity ==
    /\ []ReferencesExist
    /\ [][\A r \in DOMAIN requests :
             (requests[r].kind = "delete" /\ requests'[r] # requests[r])
             => IF requests[r].method = "POST" /\ requests[r].pk \in students
                THEN /\ requests[r].pk \notin students'
                     /\ \A table \in {holland_tests', holland_results',
                                      gardner_tests', gardner_results'} :
                           RecordsOf(table, requests[r].pk) = {}
                     /\ \A s \in InitialStudents \ {requests[r].pk} :
                           /\ RecordsOf(holland_tests', s)
                                 = RecordsOf(holland_tests, s)
                           /\ RecordsOf(holland_results', s)
                                 = RecordsOf(holland_results, s)
                           /\ RecordsOf(gardner_tests', s)
                                 = RecordsOf(gardner_tests, s)
                           /\ RecordsOf(gardner_results', s)
                                 = RecordsOf(gardner_results, s)
                           /\ (s \in students') = (s \in students)
                ELSE UNCHANGED store]_vars

\* A student whose submission had stored both records was deleted, and the
\* records are gone.
C30_Witness ==
    \E r1, r2 \in DOMAIN requests :
        /\ requests[r1].pc = "done"
        /\ requests[r2].kind = "delete" /\ requests[r2].pc = "deleted"
        /\ requests[r1].pk = requests[r2].pk
        /\ TestOf(r1) = {} /\ RawOf(r1) = {}
        /\ requests[r1].pk \notin students

=============================================================================
